---- MODULE Spec2Model ----
(***************************************************************************)
(* Verification model of the ArchivistBot Obsidian plugin's sync core:     *)
(*   - SyncEngine        (src/sync-engine.ts)                               *)
(*   - ArchivistApiClient token management (src/api-client.ts)             *)
(*   - ConfigSync        (src/config-sync.ts)                               *)
(* JavaScript runs handlers to completion: a step of the model is the code *)
(* that runs between two suspension points (awaits on network or vault     *)
(* I/O); continuations that are only microtasks away run in the same step. *)
(***************************************************************************)
EXTENDS Integers, Sequences, FiniteSets, TLC

(***************************************************************************)
(* Bounds of the model                                                     *)
(***************************************************************************)
MaxNotes == 2          \* note ids the server can hold (Spec)
MaxSchedNotes == 1     \* note ids the server can hold (SpecSched)
MaxTasks == 2          \* sync() invocations that can be suspended at once
MaxFailures == 1       \* cap on consecutiveFailures explored (Spec)
MaxBackoffFailures == 6 \* cap on consecutiveFailures when the backoff is explored
MaxSchedFailures == 2  \* cap on consecutiveFailures explored (SpecSched)
MaxTimers == 2         \* live window intervals
MaxTicks == 2          \* clock ticks explored by the engine
MaxReqs == 2           \* request() invocations that can be suspended at once
MaxOps == 2            \* doRefresh() invocations that can be suspended at once
MaxAuthTicks == 1      \* clock ticks explored by the API client
MaxBatch == 5           \* notes of a fetched batch (SpecSiblings)
MaxBatchIds == 2        \* distinct source_batch_id values (SpecSiblings)
MaxCfgOps == 1         \* ConfigSync invocations (push, pull) that can be suspended at once
MaxGen == 2            \* largest token id the server issues
MaxWNotes == 1         \* distinct notes handed to the writer
MaxBody == 2           \* pieces of content a note file can hold

(***************************************************************************)
(* Program constants                                                       *)
(***************************************************************************)
MAX_BACKOFF_MULTIPLIER == 5
MANUAL_SYNC_COOLDOWN_MS == 2000
StartNow == 2000       \* Date.now() at construction (any value >= cooldown)
TickMs == 1000
BaseIntervals == {10, 60}
InitialBaseIntervalSec == 60

EXPIRY_MARGIN_MS == 60000
TokenTtlMs == 61000    \* lifetime the server gives an access token
AuthTickMs == 1000     \* one backoff delay of an authenticated call
REQUEST_MAX_RETRIES == 2
REQUEST_BASE_DELAY_MS == 1000
REFRESH_MAX_RETRIES == 5
REFRESH_BASE_DELAY_MS == 20000
UserToken == 1         \* the token the user pastes from Telegram

NoteIds == 1..MaxNotes
TaskIds == 1..MaxTasks
ReqIds == 1..MaxReqs
OpIds == 1..MaxOps
CfgOpIds == 1..MaxCfgOps

VARIABLES
    \* ---- SyncEngine fields ----
    intervalId,            \* 0 = null, else id of the interval the engine owns
    syncing,
    consecutiveFailures,
    baseIntervalSec,
    lastManualSyncAt,
    archiveScanner,        \* TRUE when a scanner callback is set
    \* ---- SyncEngine environment ----
    timers,                \* live window intervals: set of [id, ms]
    now,                   \* Date.now()
    serverUnsynced,        \* ids the server reports as unsynced
    tasks,                 \* sync() invocations: locals and position
    \* ---- observation of the engine ----
    ev,                    \* what the last step did
    streak,                \* throwing cycles in a row since the counter was 0 (-1: unknown)
    authDead,              \* a cycle ended with RefreshTokenExpiredError since the last start()
    stopMid,               \* stop() was called during a cycle since the last start()
    \* ---- settings read and written by ArchivistApiClient (0 = "") ----
    accessToken,
    accessTokenExpiresAt,
    refreshToken,
    \* ---- ArchivistApiClient ----
    refreshing,            \* 0 = null, else the doRefresh() promise ensureAccessToken shares
    ops,                   \* doRefresh() invocations
    reqs,                  \* request() invocations
    \* ---- environment of the client ----
    anow,                  \* Date.now()
    srvGen,                \* last token id the server issued
    aev,                   \* what the last step did
    \* ---- ConfigSync fields ----
    status,
    debounceTimer,         \* "" = null, else the filePath the pending timeout will push
    lastPushedCategories,  \* <<>> = "", else <<value>> = JSON.stringify(value)
    lastPushedTags,
    \* ---- ConfigSync environment ----
    files,                 \* content of categories.md and tags_registry.md
    cfgOps,                \* pushToServer() / pullFromServer() invocations
    \* ---- observation of ConfigSync ----
    writtenBy,             \* per file: who wrote its present content
    lastPush,              \* file, hash and outcome of the last completed pushToServer()
    cev,                   \* what the last step did
    \* ---- batch siblings: a fetched batch and the writer calls made for it ----
    sbNotes,
    sbCalls,
    \* ---- requestWithRetry ----
    rt,                    \* the call of requestWithRetry() in progress
    \* ---- NoteWriter: the vault ----
    vault,                 \* per path: the note file there, or NoFile
    archive,               \* per path: the file archived from there, or NoFile
    wev,                   \* what the last step did
    \* ---- the server's copy of the configuration ----
    srvCfg                 \* per file: the categories / the registry the server holds

engineVars == <<intervalId, syncing, consecutiveFailures, baseIntervalSec,
                lastManualSyncAt, archiveScanner, timers, now, serverUnsynced,
                tasks, ev, streak, authDead, stopMid>>

authVars == <<accessToken, accessTokenExpiresAt, refreshToken, refreshing, ops,
              reqs, anow, srvGen, aev>>

cfgVars == <<status, debounceTimer, lastPushedCategories, lastPushedTags, files,
             cfgOps, lastPush, writtenBy, cev>>

sibVars == <<sbNotes, sbCalls>>
rtVars == <<rt>>
nwVars == <<vault, archive, wev>>
srvVars == <<srvCfg>>

vars == <<engineVars, authVars, cfgVars, sibVars, rtVars, nwVars, srvVars>>

(***************************************************************************)
(* Helpers                                                                 *)
(***************************************************************************)
Min(a, b) == IF a < b THEN a ELSE b

RECURSIVE Pow2(_)
Pow2(n) == IF n = 0 THEN 1 ELSE 2 * Pow2(n - 1)

RECURSIVE SortedSeq(_)
\* the notes of a fetch response, in ascending id order
SortedSeq(S) ==
    IF S = {} THEN << >>
    ELSE LET m == CHOOSE x \in S : \A y \in S : x <= y
         IN  <<m>> \o SortedSeq(S \ {m})

SeqToSet(s) == {s[k] : k \in 1..Len(s)}

IdleTask ==
    [pc |-> "idle", by |-> "none", notes |-> << >>, i |-> 0,
     syncedIds |-> << >>, written |-> << >>, vaultPaths |-> {},
     results |-> << >>, markArg |-> << >>, fetch |-> "none",
     nMark |-> 0, nScan |-> 0, nRec |-> 0, arch |-> "none", mark |-> "none"]

NewTask(by) == [IdleTask EXCEPT !.pc = "fetching", !.by = by, !.fetch = "pending"]

InFlight(t) == tasks[t].pc # "idle"

FreeTasks == {t \in TaskIds : ~InFlight(t)}
FreeTask == CHOOSE t \in FreeTasks : \A u \in FreeTasks : t <= u

\* batch: the notes fetched; mark: how markSynced went ("none": not called);
\* paths: the writes that gave a path; arch: how reconcileArchived() went
\* ("none": not entered or no scanner, "ok", "threw": scanner or call threw)
NoEv == [op |-> "init", out |-> "none", ret |-> 0, fetch |-> "none",
         writes |-> 0, okWrites |-> 0, marks |-> 0, scans |-> 0, recs |-> 0,
         paths |-> 0, arch |-> "none", batch |-> 0, mark |-> "none"]

Ev(op, out, ret) == [NoEv EXCEPT !.op = op, !.out = out, !.ret = ret]

\* the event of a sync() call that ran a cycle and has now returned or thrown
EndEv(tk, out, ret) ==
    [op |-> "end", out |-> out, ret |-> ret, fetch |-> tk.fetch,
     writes |-> Len(tk.results), okWrites |-> Len(tk.syncedIds),
     marks |-> tk.nMark, scans |-> tk.nScan, recs |-> tk.nRec,
     paths |-> Cardinality({k \in DOMAIN tk.results : tk.results[k] = "path"}),
     arch |-> tk.arch, batch |-> Len(tk.notes), mark |-> tk.mark]

(***************************************************************************)
(* Timer plumbing: stop() and scheduleNext() as functions of the engine's  *)
(* handle and the window's live intervals.                                 *)
(***************************************************************************)
\* stop(): clearInterval(intervalId); intervalId = null
StopT(iid, tm) ==
    IF iid # 0
    THEN [iid |-> 0, tm |-> {r \in tm : r.id # iid}]
    ELSE [iid |-> iid, tm |-> tm]

\* a multiplier that keeps doubling
MultiplierUncapped(cf) == Pow2(cf)

Multiplier(cf) == Min(Pow2(cf), Pow2(MAX_BACKOFF_MULTIPLIER))

IntervalMs(base, cf) == base * Multiplier(cf) * 1000

FreshTimerId(tm) ==
    CHOOSE k \in 1..(MaxTimers + 1) :
        /\ k \notin {r.id : r \in tm}
        /\ \A j \in 1..(k - 1) : j \in {r.id : r \in tm}

\* scheduleNext(): clear the existing interval, arm a new one
ScheduleNextT(iid, tm, base, cf) ==
    LET c == StopT(iid, tm)
        k == FreshTimerId(c.tm)
    IN  [iid |-> k, tm |-> c.tm \cup {[id |-> k, ms |-> IntervalMs(base, cf)]}]

\* a guard that lets every call through
SyncGuardOpen == FALSE

\* the guard of sync(): if (this.syncing) return -1
SyncGuard == syncing

(***************************************************************************)
(* Init: the engine after construction                                     *)
(***************************************************************************)
EngineInit ==
    /\ intervalId = 0
    /\ syncing = FALSE
    /\ consecutiveFailures = 0
    /\ baseIntervalSec = InitialBaseIntervalSec
    /\ lastManualSyncAt = 0
    /\ archiveScanner = FALSE
    /\ timers = {}
    /\ now = StartNow
    /\ serverUnsynced = {}
    /\ tasks = [t \in TaskIds |-> IdleTask]
    /\ ev = NoEv
    /\ streak = 0
    /\ authDead = FALSE
    /\ stopMid = FALSE

(***************************************************************************)
(* The caller's continuation once sync() has settled.                      *)
(*   by = "sched":  syncAndSchedule -> scheduleNext() whatever happened    *)
(*   by = "manual": manualSync -> Notice, rethrow                          *)
(*   by = "direct": an external caller of the public sync()                *)
(* s is the engine's timer state at that point, base and cf the fields     *)
(* scheduleNext() reads.                                                   *)
(***************************************************************************)
Continue(by, s, base, cf) ==
    IF by = "sched"
    THEN LET n == ScheduleNextT(s.iid, s.tm, base, cf)
         IN  intervalId' = n.iid /\ timers' = n.tm
    ELSE intervalId' = s.iid /\ timers' = s.tm

\* a counter that a successful cycle forgets to reset
CounterAfterNoReset(kind, cf) ==
    IF kind = "err" THEN cf + 1 ELSE cf

\* the counter after the catch block of sync()
CounterAfter(kind, cf) ==
    IF kind = "ok" THEN 0
    ELSE IF kind = "err" THEN cf + 1
    ELSE cf

\* the lock released at the end of the try block instead of in finally
FinallyOnSuccessOnly(kind) == kind # "ok"

\* the finally block of sync()
Finally(kind) == FALSE

\* sync() leaves its try block, then the caller continues.
\* kind: "ok" (counter reset, return written.length), "err" (counter
\* incremented, rethrow), "rte" (stop(); return -1).
Leave(t, tk, kind) ==
    LET cf == CounterAfter(kind, consecutiveFailures)
        s  == IF kind = "rte" THEN StopT(intervalId, timers)
              ELSE [iid |-> intervalId, tm |-> timers]
        out == IF kind = "err" THEN "threw" ELSE "returned"
        ret == IF kind = "ok" THEN Len(tk.written) ELSE IF kind = "rte" THEN -1 ELSE 0
    IN  /\ consecutiveFailures' = cf
        /\ syncing' = Finally(kind)
        /\ tasks' = [tasks EXCEPT ![t] = IdleTask]
        /\ Continue(tk.by, s, baseIntervalSec, cf)
        /\ ev' = EndEv(tk, out, ret)
        /\ streak' = IF kind = "ok" THEN 0
                     ELSE IF kind = "rte" THEN -1
                     ELSE IF streak = -1 THEN -1 ELSE streak + 1
        /\ authDead' = (authDead \/ kind = "rte")
        /\ UNCHANGED <<baseIntervalSec, lastManualSyncAt, archiveScanner, now, stopMid>>

\* a step inside a cycle that neither ends it nor touches the engine's fields
Stay(t, tk, e) ==
    /\ tasks' = [tasks EXCEPT ![t] = tk]
    /\ ev' = e
    /\ UNCHANGED <<intervalId, syncing, consecutiveFailures, baseIntervalSec,
                   lastManualSyncAt, archiveScanner, timers, now, streak,
                   authDead, stopMid>>

\* a guard that counts the skipped call as a failure
GuardReturnCounts(cf) == cf + 1

\* the counter when the guard returns -1: sync() has not touched it
GuardReturn(cf) == cf

(***************************************************************************)
(* sync() entry: the guard, then fetchUnsynced is issued.                  *)
(* s, base, cf: timer state and fields as left by the caller before the    *)
(* call.                                                                   *)
(***************************************************************************)
SyncCall(op, by, s, base, cf) ==
    IF SyncGuard
    THEN \* return -1; the caller continues in the same turn
         /\ Continue(by, s, base, GuardReturn(cf))
         /\ consecutiveFailures' = GuardReturn(cf)
         /\ ev' = Ev(op, "skipped", -1)
         /\ UNCHANGED <<syncing, tasks>>
    ELSE /\ FreeTasks # {}
         /\ syncing' = TRUE
         /\ tasks' = [tasks EXCEPT ![FreeTask] = NewTask(by)]
         /\ intervalId' = s.iid /\ timers' = s.tm
         /\ consecutiveFailures' = cf
         /\ ev' = Ev(op, "entered", 0)

\* start(intervalSec): stop(); fields reset; void syncAndSchedule()
Start(b) ==
    /\ b \in BaseIntervals
    /\ baseIntervalSec' = b
    /\ SyncCall("start", "sched", StopT(intervalId, timers), b, 0)
    /\ streak' = 0
    /\ authDead' = FALSE
    /\ stopMid' = FALSE
    /\ UNCHANGED <<lastManualSyncAt, archiveScanner, now, serverUnsynced>>

\* stop()
Stop ==
    /\ LET s == StopT(intervalId, timers)
       IN  intervalId' = s.iid /\ timers' = s.tm
    /\ stopMid' = (stopMid \/ syncing)
    /\ ev' = Ev("stop", "none", 0)
    /\ UNCHANGED <<syncing, consecutiveFailures, baseIntervalSec, lastManualSyncAt,
                   archiveScanner, now, serverUnsynced, tasks, streak, authDead>>

\* a live interval fires: () => void this.syncAndSchedule()
TimerTick ==
    /\ \E r \in timers : TRUE
    /\ SyncCall("tick", "sched", [iid |-> intervalId, tm |-> timers],
                baseIntervalSec, consecutiveFailures)
    /\ UNCHANGED <<baseIntervalSec, lastManualSyncAt, archiveScanner, now,
                   serverUnsynced, streak, authDead, stopMid>>

\* an external caller invokes the public sync()
DirectSync ==
    /\ SyncCall("sync", "direct", [iid |-> intervalId, tm |-> timers],
                baseIntervalSec, consecutiveFailures)
    /\ UNCHANGED <<baseIntervalSec, lastManualSyncAt, archiveScanner, now,
                   serverUnsynced, streak, authDead, stopMid>>

\* a manualSync() that starts its cycle whether or not one is in flight
\* a manualSync() without its cooldown
InCooldownNever == FALSE

\* manualSync(): now - this.lastManualSyncAt < MANUAL_SYNC_COOLDOWN_MS
InCooldown == now - lastManualSyncAt < MANUAL_SYNC_COOLDOWN_MS

ManualSyncIgnoresBusy ==
    /\ UNCHANGED <<baseIntervalSec, archiveScanner, now, serverUnsynced, streak,
                   authDead, stopMid>>
    /\ IF InCooldown
       THEN /\ ev' = Ev("manual", "cooldown", 0)
            /\ UNCHANGED <<intervalId, syncing, consecutiveFailures,
                           lastManualSyncAt, timers, tasks>>
       ELSE /\ lastManualSyncAt' = now
            /\ FreeTasks # {}
            /\ syncing' = TRUE
            /\ tasks' = [tasks EXCEPT ![FreeTask] = NewTask("manual")]
            /\ ev' = Ev("manual", "entered", 0)
            /\ UNCHANGED <<intervalId, timers, consecutiveFailures>>

\* manualSync()
ManualSync ==
    /\ UNCHANGED <<baseIntervalSec, archiveScanner, now, serverUnsynced, streak,
                   authDead, stopMid>>
    /\ IF InCooldown
       THEN /\ ev' = Ev("manual", "cooldown", 0)
            /\ UNCHANGED <<intervalId, syncing, consecutiveFailures,
                           lastManualSyncAt, timers, tasks>>
       ELSE IF syncing
       THEN /\ ev' = Ev("manual", "busy", 0)
            /\ UNCHANGED <<intervalId, syncing, consecutiveFailures,
                           lastManualSyncAt, timers, tasks>>
       ELSE /\ lastManualSyncAt' = now
            /\ SyncCall("manual", "manual", [iid |-> intervalId, tm |-> timers],
                        baseIntervalSec, consecutiveFailures)

\* setArchiveScanner(scanner)
SetArchiveScanner ==
    /\ ~archiveScanner
    /\ archiveScanner' = TRUE
    /\ ev' = Ev("env", "none", 0)
    /\ UNCHANGED <<intervalId, syncing, consecutiveFailures, baseIntervalSec,
                   lastManualSyncAt, timers, now, serverUnsynced, tasks, streak,
                   authDead, stopMid>>

(***************************************************************************)
(* The cycle: the body of sync() between its suspension points             *)
(***************************************************************************)
\* reconcileArchived() is entered: without a scanner it returns at once
Reconcile(t, tk, e) ==
    IF archiveScanner
    THEN Stay(t, [tk EXCEPT !.pc = "scanning", !.nScan = @ + 1], e)
    ELSE Leave(t, tk, "ok")

\* an acknowledgement of the notes that gave a path only: a deduplicated
\* note (write() returned null) is left out
MarkSyncedArgWrittenOnly(tk) == tk.written

\* the ids handed to markSynced: syncedIds, written or deduplicated
MarkSyncedArg(tk) == tk.syncedIds

\* after the write loop: if (syncedIds.length > 0) await markSynced(...)
\* markSynced is called whatever the writes did
AfterWritesMarkAlways(t, tk, e) ==
    Stay(t, [tk EXCEPT !.pc = "marking", !.markArg = MarkSyncedArg(tk),
                       !.nMark = @ + 1], e)

\* after the loop: if (syncedIds.length > 0) await markSynced(...), then
\* reconcileArchived()
AfterWrites(t, tk, e) ==
    IF Len(tk.syncedIds) > 0
    THEN Stay(t, [tk EXCEPT !.pc = "marking", !.markArg = MarkSyncedArg(tk),
                            !.nMark = @ + 1], e)
    ELSE Reconcile(t, tk, e)

\* the push moved out of the try block: every note is acknowledged
PushSyncedAlways(ids, note, r) == Append(ids, note)

\* the loop body's effect on syncedIds: pushed unless write() threw
PushSynced(ids, note, r) ==
    IF r # "threw" THEN Append(ids, note) ELSE ids

\* a loop that begins with the last note of the batch
FetchOkLastNoteFirst(t) ==
    /\ tasks[t].pc = "fetching"
    /\ LET notes == SortedSeq(serverUnsynced)
           tk == [tasks[t] EXCEPT !.notes = notes, !.i = Len(notes), !.fetch = "ok"]
       IN  IF Len(notes) = 0
           THEN Leave(t, tk, "ok")
           ELSE Stay(t, [tk EXCEPT !.pc = "writing"], Ev("step", "none", 0))
    /\ UNCHANGED serverUnsynced

\* fetchUnsynced() resolves with the server's unsynced notes
FetchOk(t) ==
    /\ tasks[t].pc = "fetching"
    /\ LET notes == SortedSeq(serverUnsynced)
           tk == [tasks[t] EXCEPT !.notes = notes, !.i = 1, !.fetch = "ok"]
       IN  IF Len(notes) = 0
           THEN Leave(t, tk, "ok")
           ELSE Stay(t, [tk EXCEPT !.pc = "writing"], Ev("step", "none", 0))
    /\ UNCHANGED serverUnsynced

\* a fetch error swallowed: the cycle goes on with the notes it can get
FetchFailSwallowed(t, e) ==
    /\ tasks[t].pc = "fetching"
    /\ e \in {"err", "rte"}
    /\ LET notes == SortedSeq(serverUnsynced)
           tk == [tasks[t] EXCEPT !.notes = notes, !.i = 1, !.fetch = e]
       IN  IF Len(notes) = 0
           THEN Leave(t, tk, e)
           ELSE Stay(t, [tk EXCEPT !.pc = "writing"], Ev("step", "none", 0))
    /\ UNCHANGED serverUnsynced

\* fetchUnsynced() rejects: e = "err" (any error) or "rte"
\* (RefreshTokenExpiredError)
FetchFail(t, e) ==
    /\ tasks[t].pc = "fetching"
    /\ e \in {"err", "rte"}
    /\ Leave(t, [tasks[t] EXCEPT !.fetch = e], e)
    /\ UNCHANGED serverUnsynced

\* a write error that ends the cycle
WriteDoneAborts(t, r) ==
    /\ tasks[t].pc = "writing"
    /\ r \in {"path", "null", "threw"}
    /\ LET tk0 == tasks[t]
           note == tk0.notes[tk0.i]
           tk1 == [tk0 EXCEPT
                     !.results = Append(@, r),
                     !.written = IF r = "path" THEN Append(@, note) ELSE @,
                     !.vaultPaths = IF r = "path" THEN @ \cup {note} ELSE @,
                     !.syncedIds = PushSynced(@, note, r),
                     !.i = @ + 1]
       IN  IF r = "threw"
           THEN Leave(t, tk1, "err")
           ELSE IF tk1.i <= Len(tk1.notes)
           THEN Stay(t, tk1, Ev("step", "none", 0))
           ELSE AfterWrites(t, tk1, Ev("step", "none", 0))
    /\ UNCHANGED serverUnsynced

\* writer.write(note) settles: a path, null (dedup) or an exception
WriteDone(t, r) ==
    /\ tasks[t].pc = "writing"
    /\ r \in {"path", "null", "threw"}
    /\ LET tk0 == tasks[t]
           note == tk0.notes[tk0.i]
           tk1 == [tk0 EXCEPT
                     !.results = Append(@, r),
                     !.written = IF r = "path" THEN Append(@, note) ELSE @,
                     !.vaultPaths = IF r = "path" THEN @ \cup {note} ELSE @,
                     !.syncedIds = PushSynced(@, note, r),
                     !.i = @ + 1]
       IN  IF tk1.i <= Len(tk1.notes)
           THEN Stay(t, tk1, Ev("step", "none", 0))
           ELSE AfterWrites(t, tk1, Ev("step", "none", 0))
    /\ UNCHANGED serverUnsynced

\* markSynced(syncedIds, vaultPaths) resolves
MarkOk(t) ==
    /\ tasks[t].pc = "marking"
    /\ serverUnsynced' = serverUnsynced \ SeqToSet(tasks[t].markArg)
    /\ Reconcile(t, [tasks[t] EXCEPT !.mark = "ok"], Ev("step", "none", 0))

\* markSynced rejects
MarkFail(t, e) ==
    /\ tasks[t].pc = "marking"
    /\ e \in {"err", "rte"}
    /\ Leave(t, [tasks[t] EXCEPT !.mark = e], e)
    /\ UNCHANGED serverUnsynced

\* archiveScanner() settles: no paths, some paths, or an exception (caught)
ScanDone(t, r) ==
    /\ tasks[t].pc = "scanning"
    /\ r \in {"empty", "paths", "threw"}
    /\ IF r = "paths"
       THEN Stay(t, [tasks[t] EXCEPT !.pc = "reconciling", !.nRec = @ + 1],
                 Ev("step", "none", 0))
       ELSE Leave(t, [tasks[t] EXCEPT !.arch = IF r = "threw" THEN "threw" ELSE "ok"],
                  "ok")
    /\ UNCHANGED serverUnsynced

\* a failure of client.reconcileArchived(paths) that ends the cycle
ReconcileDonePropagates(t, r) ==
    /\ tasks[t].pc = "reconciling"
    /\ r \in {"ok", "err", "rte"}
    /\ Leave(t, [tasks[t] EXCEPT !.arch = IF r = "ok" THEN "ok" ELSE "threw"], r)
    /\ UNCHANGED serverUnsynced

\* client.reconcileArchived(paths) settles; every failure is caught and logged
ReconcileDone(t, r) ==
    /\ tasks[t].pc = "reconciling"
    /\ r \in {"ok", "err", "rte"}
    /\ Leave(t, [tasks[t] EXCEPT !.arch = IF r = "ok" THEN "ok" ELSE "threw"], "ok")
    /\ UNCHANGED serverUnsynced

(***************************************************************************)
(* Environment of the engine                                               *)
(***************************************************************************)
\* the bot files a new note on the server
NewNote(n) ==
    /\ n \in NoteIds \ serverUnsynced
    /\ serverUnsynced' = serverUnsynced \cup {n}
    /\ ev' = Ev("env", "none", 0)
    /\ UNCHANGED <<intervalId, syncing, consecutiveFailures, baseIntervalSec,
                   lastManualSyncAt, archiveScanner, timers, now, tasks, streak,
                   authDead, stopMid>>

\* time passes
ClockTick ==
    /\ now < StartNow + MaxTicks * TickMs
    /\ now' = now + TickMs
    /\ ev' = Ev("env", "none", 0)
    /\ UNCHANGED <<intervalId, syncing, consecutiveFailures, baseIntervalSec,
                   lastManualSyncAt, archiveScanner, timers, serverUnsynced,
                   tasks, streak, authDead, stopMid>>

(***************************************************************************)
(* ArchivistApiClient: token management (src/api-client.ts)                *)
(* A request() invocation is at "ensure" (awaiting this.refreshing),       *)
(* "call1" (the original call in flight), "forced" (awaiting the           *)
(* doRefresh() it started after a 401) or "call2" (the re-issued call).    *)
(* A doRefresh() invocation is at "exchange" (POST /v1/auth/refresh in     *)
(* flight), "saveOk" or "saveFail" (awaiting saveSettings()).              *)
(***************************************************************************)
\* forced, reissued: the forced renewals and re-issued calls of the invocation
\* tok, exp: the access token the call in flight carries and its expiry
\* attempt: the attempt of requestWithRetry() in flight (0-based)
IdleReq == [pc |-> "idle", waitOn |-> 0, owner |-> FALSE, tok |-> 0, exp |-> 0,
            attempt |-> 0, forced |-> 0, reissued |-> 0]
FreeOp == [pc |-> "free", origin |-> "none"]

NoOuts == [r \in ReqIds |-> "none"]
\* the last step as seen by the callers: what ended and with which result
\* (a step that ends no request leaves the same record whatever it was)
AEv(op, outs) == [op |-> IF outs = NoOuts THEN "step" ELSE op, outs |-> outs]

\* the client over settings loaded from an earlier session: the token pair
\* that session was given, the access token still valid
AuthInit ==
    /\ accessToken = UserToken
    /\ accessTokenExpiresAt = TokenTtlMs
    /\ refreshToken = UserToken
    /\ refreshing = 0
    /\ ops = [o \in OpIds |-> FreeOp]
    /\ reqs = [r \in ReqIds |-> IdleReq]
    /\ anow = 0
    /\ srvGen = UserToken
    /\ aev = AEv("init", NoOuts)

\* isAccessTokenValid()
IsAccessTokenValid ==
    IF accessToken = 0 \/ accessTokenExpiresAt = 0
    THEN FALSE
    ELSE anow < accessTokenExpiresAt - EXPIRY_MARGIN_MS

FreeOps == {o \in OpIds : ops[o].pc = "free"}
FreeOpId == CHOOSE o \in FreeOps : \A u \in FreeOps : o <= u

\* ensureAccessToken() never shares a renewal
RefreshPendingIgnored == FALSE

\* ensureAccessToken(): if (this.refreshing) await it
RefreshPending == refreshing # 0

\* the request leaves request(): returned ("ok") or threw
ReqEnds(r, out) ==
    /\ reqs' = [reqs EXCEPT ![r] = IdleReq]
    /\ aev' = AEv("request", [NoOuts EXCEPT ![r] = out])

\* request(): await ensureAccessToken(), then the call is sent
\* (a new invocation takes the lowest idle slot)
Request(r) ==
    /\ reqs[r].pc = "idle"
    /\ \A u \in ReqIds : reqs[u].pc = "idle" => r <= u
    /\ UNCHANGED <<accessToken, accessTokenExpiresAt, refreshToken, anow, srvGen>>
    /\ IF IsAccessTokenValid
       THEN /\ reqs' = [reqs EXCEPT ![r] = [IdleReq EXCEPT !.pc = "call1",
                                                           !.tok = accessToken,
                                                           !.exp = accessTokenExpiresAt]]
            /\ aev' = AEv("request", NoOuts)
            /\ UNCHANGED <<refreshing, ops>>
       ELSE IF RefreshPending
       THEN /\ reqs' = [reqs EXCEPT ![r] = [IdleReq EXCEPT !.pc = "ensure",
                                                           !.waitOn = refreshing]]
            /\ aev' = AEv("request", NoOuts)
            /\ UNCHANGED <<refreshing, ops>>
       ELSE IF refreshToken = 0
       THEN \* doRefresh() throws before any call; refreshing is set and
            \* cleared again within the turn
            /\ ReqEnds(r, "rte")
            /\ UNCHANGED <<refreshing, ops>>
       ELSE /\ FreeOps # {}
            /\ ops' = [ops EXCEPT ![FreeOpId] =
                         [pc |-> "exchange", origin |-> "ensure"]]
            /\ refreshing' = FreeOpId
            /\ reqs' = [reqs EXCEPT ![r] = [IdleReq EXCEPT !.pc = "ensure",
                                                           !.waitOn = FreeOpId,
                                                           !.owner = TRUE]]
            /\ aev' = AEv("request", NoOuts)

\* a renewal whose handle is never cleared
SettleKeepsHandle(o, res) ==
    LET waiting(r) == reqs[r].waitOn = o /\ reqs[r].pc \in {"ensure", "forced"}
    IN  /\ ops' = [ops EXCEPT ![o] = FreeOp]
        /\ refreshing' = refreshing
        /\ reqs' = [r \in ReqIds |->
                      IF ~waiting(r) THEN reqs[r]
                      ELSE IF res # "ok" THEN IdleReq
                      ELSE [IdleReq EXCEPT
                              !.pc = IF reqs[r].pc = "ensure" THEN "call1" ELSE "call2",
                              !.tok = accessToken,
                              !.exp = accessTokenExpiresAt,
                              !.forced = reqs[r].forced,
                              !.reissued = IF reqs[r].pc = "ensure" THEN reqs[r].reissued
                                           ELSE reqs[r].reissued + 1]]
        /\ aev' = AEv("settle", [r \in ReqIds |->
                                   IF waiting(r) /\ res # "ok" THEN res ELSE "none"])

\* the doRefresh() promise o settles with res ("ok", "err" or "rte"): every
\* invocation awaiting it continues in the same turn
Settle(o, res) ==
    LET waiting(r) == reqs[r].waitOn = o /\ reqs[r].pc \in {"ensure", "forced"}
    IN  /\ ops' = [ops EXCEPT ![o] = FreeOp]
        /\ refreshing' = IF \E r \in ReqIds : waiting(r) /\ reqs[r].owner
                         THEN 0 ELSE refreshing
        /\ reqs' = [r \in ReqIds |->
                      IF ~waiting(r) THEN reqs[r]
                      ELSE IF res # "ok" THEN IdleReq
                      ELSE [IdleReq EXCEPT
                              !.pc = IF reqs[r].pc = "ensure" THEN "call1" ELSE "call2",
                              !.tok = accessToken,
                              !.exp = accessTokenExpiresAt,
                              !.forced = reqs[r].forced,
                              !.reissued = IF reqs[r].pc = "ensure" THEN reqs[r].reissued
                                           ELSE reqs[r].reissued + 1]]
        /\ aev' = AEv("settle", [r \in ReqIds |->
                                   IF waiting(r) /\ res # "ok" THEN res ELSE "none"])

\* a renewal that stores the new access token and keeps the old refresh token
ExchangeOkKeepsRefreshToken(o) ==
    /\ ops[o].pc = "exchange"
    /\ srvGen < MaxGen
    /\ srvGen' = srvGen + 1
    /\ accessToken' = srvGen + 1
    /\ accessTokenExpiresAt' = anow + TokenTtlMs
    /\ ops' = [ops EXCEPT ![o].pc = "saveOk"]
    /\ aev' = AEv("exchange", NoOuts)
    /\ UNCHANGED <<refreshToken, refreshing, reqs, anow>>

\* POST /v1/auth/refresh answers with a new token pair
ExchangeOk(o) ==
    /\ ops[o].pc = "exchange"
    /\ srvGen < MaxGen
    /\ srvGen' = srvGen + 1
    /\ accessToken' = srvGen + 1
    /\ accessTokenExpiresAt' = anow + TokenTtlMs
    /\ refreshToken' = srvGen + 1
    /\ ops' = [ops EXCEPT ![o].pc = "saveOk"]
    /\ aev' = AEv("exchange", NoOuts)
    /\ UNCHANGED <<refreshing, reqs, anow>>

\* the rejection is treated like any other failure: nothing is cleared
ExchangeRejectKeepsToken(o) ==
    /\ ops[o].pc = "exchange"
    /\ ops' = [ops EXCEPT ![o].pc = "saveFail"]
    /\ aev' = AEv("exchange", NoOuts)
    /\ UNCHANGED <<accessToken, accessTokenExpiresAt, refreshToken, refreshing,
                   reqs, anow, srvGen>>

\* POST /v1/auth/refresh is rejected with 401 or 403
ExchangeReject(o) ==
    /\ ops[o].pc = "exchange"
    /\ accessToken' = 0
    /\ accessTokenExpiresAt' = 0
    /\ ops' = [ops EXCEPT ![o].pc = "saveFail"]
    /\ aev' = AEv("exchange", NoOuts)
    /\ UNCHANGED <<refreshToken, refreshing, reqs, anow, srvGen>>

\* POST /v1/auth/refresh fails in any other way once its retries are used up
ExchangeErr(o) ==
    /\ ops[o].pc = "exchange"
    /\ Settle(o, "err")
    /\ UNCHANGED <<accessToken, accessTokenExpiresAt, refreshToken, anow, srvGen>>

\* saveSettings() resolves inside doRefresh()
SaveDone(o) ==
    /\ ops[o].pc \in {"saveOk", "saveFail"}
    /\ Settle(o, IF ops[o].pc = "saveOk" THEN "ok" ELSE "rte")
    /\ UNCHANGED <<accessToken, accessTokenExpiresAt, refreshToken, anow, srvGen>>

\* requestWithRetry(): an attempt of the call fails with a retryable error
\* and is not the last one; after sleep(baseDelayMs * 2 ** attempt) the same
\* params, headers included, are sent again
Retry(r) ==
    /\ reqs[r].pc \in {"call1", "call2"}
    /\ reqs[r].attempt < REQUEST_MAX_RETRIES - 1
    /\ anow < MaxAuthTicks * AuthTickMs
    /\ anow' = anow + AuthTickMs
    /\ reqs' = [reqs EXCEPT ![r].attempt = @ + 1]
    /\ aev' = AEv("retry", NoOuts)
    /\ UNCHANGED <<accessToken, accessTokenExpiresAt, refreshToken, refreshing,
                   ops, srvGen>>

\* the original call settles: res is "ok", "401" or "err"
Call1Done(r, res) ==
    /\ reqs[r].pc = "call1"
    /\ res \in {"ok", "401", "err"}
    /\ UNCHANGED <<accessToken, accessTokenExpiresAt, refreshToken, refreshing,
                   anow, srvGen>>
    /\ IF res # "401"
       THEN ReqEnds(r, res) /\ UNCHANGED ops
       ELSE IF refreshToken = 0
       THEN ReqEnds(r, "rte") /\ UNCHANGED ops
       ELSE \* await this.doRefresh()
            /\ FreeOps # {}
            /\ ops' = [ops EXCEPT ![FreeOpId] =
                         [pc |-> "exchange", origin |-> "forced"]]
            /\ reqs' = [reqs EXCEPT ![r] = [IdleReq EXCEPT !.pc = "forced",
                                                           !.waitOn = FreeOpId,
                                                           !.forced = reqs[r].forced + 1]]
            /\ aev' = AEv("call1", NoOuts)

\* a second 401 is answered like the first: another renewal, another re-issue
Call2DoneRenewsAgain(r, res) ==
    /\ reqs[r].pc = "call2"
    /\ res \in {"ok", "401", "err"}
    /\ UNCHANGED <<accessToken, accessTokenExpiresAt, refreshToken, refreshing,
                   anow, srvGen>>
    /\ IF res # "401" \/ refreshToken = 0 \/ FreeOps = {}
       THEN ReqEnds(r, res) /\ UNCHANGED ops
       ELSE /\ ops' = [ops EXCEPT ![FreeOpId] =
                         [pc |-> "exchange", origin |-> "forced"]]
            /\ reqs' = [reqs EXCEPT ![r] = [IdleReq EXCEPT !.pc = "forced",
                                                           !.waitOn = FreeOpId,
                                                           !.forced = reqs[r].forced + 1]]
            /\ aev' = AEv("call2", NoOuts)

\* the re-issued call settles: its result is the request's result
Call2Done(r, res) ==
    /\ reqs[r].pc = "call2"
    /\ res \in {"ok", "401", "err"}
    /\ ReqEnds(r, res)
    /\ UNCHANGED <<accessToken, accessTokenExpiresAt, refreshToken, refreshing,
                   ops, anow, srvGen>>

\* the settings tab: a token is pasted (or the field is emptied)
PasteToken(v) ==
    /\ v \in {0, UserToken}
    /\ refreshToken' = v
    /\ accessToken' = 0
    /\ accessTokenExpiresAt' = 0
    /\ aev' = AEv("paste", NoOuts)
    /\ UNCHANGED <<refreshing, ops, reqs, anow, srvGen>>

\* time passes
AuthTick ==
    /\ anow < MaxAuthTicks * AuthTickMs
    /\ anow' = anow + AuthTickMs
    /\ aev' = AEv("tick", NoOuts)
    /\ UNCHANGED <<accessToken, accessTokenExpiresAt, refreshToken, refreshing,
                   ops, reqs, srvGen>>

(***************************************************************************)
(* ConfigSync (src/config-sync.ts) with CategoriesManager and TagsManager  *)
(* The content of categories.md is the sequence of the Reminder cells of   *)
(* its table rows; the content of tags_registry.md is the sequence of the  *)
(* lines that open its categories.  A parsed value is the sequence of what *)
(* the parser keeps of each row.  A missing file reads as the defaults, so *)
(* the files start with the default content.                               *)
(***************************************************************************)
Files == {"categories", "tags"}
VALID_REMINDERS == {"off", "daily", "weekly", "monthly"}
\* Reminder cell of a row: empty, a valid value, an invalid value
ReminderCells == {"", "weekly", "bogus"}
\* the line that opens a category of the registry file: "work: {}" or "work:"
TagLines == {"inline", "bare"}

\* what the user can leave in a file: a table of one category, a registry of
\* none or one
Texts(f) ==
    IF f = "categories" THEN {<<c>> : c \in ReminderCells}
    ELSE {<<>>} \cup {<<l>> : l \in TagLines}

\* what the server can answer: a category with or without a reminder, a
\* registry that is empty or has one category without tags
ServerValues(f) ==
    IF f = "categories" THEN {<<"">>, <<"weekly">>}
    ELSE {<<>>, <<"empty">>}

\* CategoriesManager.parseMarkdown: an empty or invalid cell leaves the
\* category without a reminder
ParseCategories(content) ==
    [i \in DOMAIN content |->
        IF content[i] \in VALID_REMINDERS THEN content[i] ELSE ""]

\* the cells parseMarkdown warns about with a Notice
InvalidCells(content) ==
    {i \in DOMAIN content : content[i] # "" /\ content[i] \notin VALID_REMINDERS}

\* CategoriesManager.formatAsMarkdown: cat.reminder || "weekly"
FormatCategories(categories) ==
    [i \in DOMAIN categories |->
        IF categories[i] = "" THEN "weekly" ELSE categories[i]]

\* TagsManager.parseYaml: only a line ending with ":" opens a category
ParseTags(content) ==
    LET kept == SelectSeq(content, LAMBDA l : l # "inline")
    IN  [i \in DOMAIN kept |-> IF kept[i] = "bare" THEN "empty" ELSE "tagged"]

\* TagsManager.formatAsMarkdown: a category without tags is written "name: {}"
FormatTags(registry) ==
    [i \in DOMAIN registry |-> IF registry[i] = "empty" THEN "inline" ELSE "tagged"]

\* manager.read() of file f
ReadFile(f) ==
    IF f = "categories" THEN ParseCategories(files[f]) ELSE ParseTags(files[f])

\* the content manager.write(value) leaves in file f
WriteFile(f, value) ==
    IF f = "categories" THEN FormatCategories(value) ELSE FormatTags(value)

\* Notices read() shows while parsing file f
ReadNotices(f) ==
    IF f = "categories" /\ InvalidCells(files[f]) # {} THEN {"invalid reminder"} ELSE {}

\* JSON.stringify(value): never the empty string
Stringify(value) == <<value>>

LastPushed(f) == IF f = "categories" THEN lastPushedCategories ELSE lastPushedTags

\* tr: what an initialize() invocation has done so far
IdleCfgOp == [kind |-> "none", pc |-> "idle", f |-> "", val |-> <<>>, tr |-> <<>>]
FreeCfgOps == {o \in CfgOpIds : cfgOps[o].pc = "idle"}
FreeCfgOp == CHOOSE o \in FreeCfgOps : \A u \in FreeCfgOps : o <= u

\* invocation o returns: the suspended invocations stay, in their order
Release(o) ==
    LET left == SelectSeq([u \in CfgOpIds |-> IF u = o THEN IdleCfgOp ELSE cfgOps[u]],
                          LAMBDA c : c.pc # "idle")
    IN  [u \in CfgOpIds |-> IF u <= Len(left) THEN left[u] ELSE IdleCfgOp]

NoPush == [f |-> "", hash |-> <<>>, out |-> "none"]
\* prev: at a read, the outcome of the last completed push if it was of f
CEv(op, f, hash, net, notices) ==
    [op |-> op, f |-> f, hash |-> hash, net |-> net, notices |-> notices,
     prev |-> IF op = "read" /\ lastPush.f = f THEN lastPush.out ELSE "none",
     init |-> <<>>]

DefaultCategories == <<"weekly">>

ConfigInit ==
    /\ status = "pending"
    /\ debounceTimer = ""
    /\ lastPushedCategories = <<>>
    /\ lastPushedTags = <<>>
    /\ files = [f \in Files |->
                  IF f = "categories" THEN FormatCategories(DefaultCategories)
                  ELSE FormatTags(<<>>)]
    /\ cfgOps = [o \in CfgOpIds |-> IdleCfgOp]
    /\ lastPush = NoPush
    /\ writtenBy = [f \in Files |-> "user"]
    /\ cev = [op |-> "init", f |-> "", hash |-> <<>>, net |-> FALSE,
              notices |-> {}, prev |-> "none", init |-> <<>>]

\* this.lastPushedCategories = h / this.lastPushedTags = h
SetLastPushed(f, h) ==
    /\ lastPushedCategories' = IF f = "categories" THEN h ELSE lastPushedCategories
    /\ lastPushedTags' = IF f = "tags" THEN h ELSE lastPushedTags

\* the vault's modify event for f: handleFileChange(f) re-arms the debounce
\* timer and sets the status
HandleFileChange(f) ==
    /\ debounceTimer' = f
    /\ status' = "pending"

\* the user saves file f with content x
Modify(f, x) ==
    /\ x \in Texts(f)
    /\ files' = [files EXCEPT ![f] = x]
    /\ HandleFileChange(f)
    /\ writtenBy' = [writtenBy EXCEPT ![f] = "user"]
    /\ cev' = CEv("modify", f, <<>>, FALSE, {})
    /\ UNCHANGED <<lastPushedCategories, lastPushedTags, cfgOps, lastPush>>

\* the debounce timeout fires: pushToServer(filePath) starts and awaits read()
DebounceFire ==
    /\ debounceTimer # ""
    /\ FreeCfgOps # {}
    /\ debounceTimer' = ""
    /\ cfgOps' = [cfgOps EXCEPT ![FreeCfgOp] =
                    [IdleCfgOp EXCEPT !.kind = "push", !.pc = "reading",
                                      !.f = debounceTimer]]
    /\ cev' = CEv("fire", debounceTimer, <<>>, FALSE, {})
    /\ UNCHANGED <<status, lastPushedCategories, lastPushedTags, files, lastPush,
                   writtenBy>>

\* the push never finds its content unchanged
HashChangedAlways(hash, last) == FALSE

\* pushToServer: if (hash === this.lastPushed...)
HashUnchanged(hash, last) == hash = last

\* pushToServer: read() resolves; the hash is compared and the update call
\* is issued unless it is unchanged
PushRead(o) ==
    LET f == cfgOps[o].f
        value == ReadFile(f)
        hash == Stringify(value)
    IN  /\ cfgOps[o].kind = "push"
        /\ cfgOps[o].pc = "reading"
        /\ IF HashUnchanged(hash, LastPushed(f))
           THEN /\ status' = "synced"
                /\ cfgOps' = Release(o)
                /\ lastPush' = [f |-> f, hash |-> hash, out |-> "skipped"]
                /\ cev' = CEv("read", f, hash, FALSE, ReadNotices(f))
           ELSE /\ cfgOps' = [cfgOps EXCEPT ![o].pc = "updating", ![o].val = value]
                /\ cev' = CEv("read", f, hash, TRUE, ReadNotices(f))
                /\ UNCHANGED <<status, lastPush>>
        /\ UNCHANGED <<debounceTimer, lastPushedCategories, lastPushedTags, files,
                       writtenBy>>

\* pushToServer: updateCategories / updateTags resolves
PushOk(o) ==
    LET f == cfgOps[o].f
        hash == Stringify(cfgOps[o].val)
    IN  /\ cfgOps[o].kind = "push"
        /\ cfgOps[o].pc = "updating"
        /\ SetLastPushed(f, hash)
        /\ status' = "synced"
        /\ cfgOps' = Release(o)
        /\ lastPush' = [f |-> f, hash |-> hash, out |-> "ok"]
        /\ cev' = CEv("pushed", f, hash, FALSE, {"synced to server"})
        /\ UNCHANGED <<debounceTimer, files, writtenBy>>

\* a push that records its hash before knowing the call's outcome
PushFailRecordsHash(o, e) ==
    LET f == cfgOps[o].f
        hash == Stringify(cfgOps[o].val)
    IN  /\ cfgOps[o].kind = "push"
        /\ cfgOps[o].pc = "updating"
        /\ e \in {"err", "rte"}
        /\ status' = "error"
        /\ cfgOps' = Release(o)
        /\ lastPush' = [f |-> f, hash |-> hash,
                        out |-> IF LastPushed(f) = hash THEN "failedDelivered"
                                ELSE "failed"]
        /\ cev' = CEv("pushFailed", f, hash, FALSE,
                      IF e = "rte" THEN {"token expired"} ELSE {"failed to sync"})
        /\ SetLastPushed(f, hash)
        /\ UNCHANGED <<debounceTimer, files, writtenBy>>

\* pushToServer: updateCategories / updateTags rejects with e (the record
\* tells a failure from one that another push of the same content, in flight
\* with it, had already delivered)
PushFail(o, e) ==
    LET f == cfgOps[o].f
        hash == Stringify(cfgOps[o].val)
    IN  /\ cfgOps[o].kind = "push"
        /\ cfgOps[o].pc = "updating"
        /\ e \in {"err", "rte"}
        /\ status' = "error"
        /\ cfgOps' = Release(o)
        /\ lastPush' = [f |-> f, hash |-> hash,
                        out |-> IF LastPushed(f) = hash THEN "failedDelivered"
                                ELSE "failed"]
        /\ cev' = CEv("pushFailed", f, hash, FALSE,
                      IF e = "rte" THEN {"token expired"} ELSE {"failed to sync"})
        /\ UNCHANGED <<debounceTimer, lastPushedCategories, lastPushedTags, files,
                       writtenBy>>

\* manualSync(): status pending, pullFromServer() awaits getCategories()
ConfigManualSync ==
    /\ FreeCfgOps # {}
    /\ status' = "pending"
    /\ cfgOps' = [cfgOps EXCEPT ![FreeCfgOp] =
                    [IdleCfgOp EXCEPT !.kind = "pull", !.pc = "get",
                                      !.f = "categories"]]
    /\ cev' = CEv("manualSync", "", <<>>, FALSE, {})
    /\ UNCHANGED <<debounceTimer, lastPushedCategories, lastPushedTags, files, lastPush,
                   writtenBy>>

\* pullFromServer: getCategories() / getTags() resolves with value v, which
\* manager.write() formats into the file; the vault announces the change
PullGot(o, v) ==
    LET f == cfgOps[o].f
    IN  /\ cfgOps[o].kind = "pull"
        /\ cfgOps[o].pc = "get"
        /\ v \in ServerValues(f)
        /\ files' = [files EXCEPT ![f] = WriteFile(f, v)]
        /\ HandleFileChange(f)
        /\ cfgOps' = [cfgOps EXCEPT ![o].pc = "write", ![o].val = v]
        /\ writtenBy' = [writtenBy EXCEPT ![f] = "pull"]
        /\ cev' = CEv("pullGot", f, <<>>, FALSE, {})
        /\ UNCHANGED <<lastPushedCategories, lastPushedTags, lastPush>>

\* pullFromServer: manager.write() resolves; the pulled value is recorded as
\* last pushed; after categories come the tags, after the tags the pull ends
PullWritten(o) ==
    LET f == cfgOps[o].f
    IN  /\ cfgOps[o].kind = "pull"
        /\ cfgOps[o].pc = "write"
        /\ SetLastPushed(f, Stringify(cfgOps[o].val))
        /\ lastPush' = IF lastPush.f = f THEN NoPush ELSE lastPush
        /\ IF f = "categories"
           THEN /\ cfgOps' = [cfgOps EXCEPT ![o] =
                                [IdleCfgOp EXCEPT !.kind = "pull", !.pc = "get",
                                                  !.f = "tags"]]
                /\ cev' = CEv("pullWritten", f, <<>>, FALSE, {})
                /\ UNCHANGED <<status, writtenBy>>
           ELSE /\ cfgOps' = Release(o)
                /\ status' = "synced"
                /\ writtenBy' = [g \in Files |->
                                   IF writtenBy[g] = "pull" THEN "pulled" ELSE writtenBy[g]]
                /\ cev' = CEv("pullWritten", f, <<>>, FALSE, {"synced from server"})
        /\ UNCHANGED <<debounceTimer, files>>

\* pullFromServer: getCategories() / getTags() rejects with e
PullFail(o, e) ==
    /\ cfgOps[o].kind = "pull"
    /\ cfgOps[o].pc = "get"
    /\ e \in {"err", "rte"}
    /\ status' = IF e = "rte" THEN "error" ELSE "offline"
    /\ cfgOps' = Release(o)
    /\ writtenBy' = [g \in Files |->
                       IF writtenBy[g] = "pull" THEN "user" ELSE writtenBy[g]]
    /\ cev' = CEv("pullFailed", cfgOps[o].f, <<>>, FALSE,
                  IF e = "rte" THEN {"token expired"} ELSE {})
    /\ UNCHANGED <<debounceTimer, lastPushedCategories, lastPushedTags, files, lastPush>>

\* initialize(): the files exist, so both ensureExists() return; it awaits
\* getCategories()
Initialize ==
    /\ FreeCfgOps # {}
    /\ cfgOps' = [cfgOps EXCEPT ![FreeCfgOp] =
                    [IdleCfgOp EXCEPT !.kind = "init", !.pc = "get",
                                      !.f = "categories"]]
    /\ cev' = CEv("initialize", "", <<>>, FALSE, {})
    /\ UNCHANGED <<status, debounceTimer, lastPushedCategories, lastPushedTags, files,
                   lastPush, writtenBy>>

\* file f may be missing from the vault: it reads as its default content
MaybeMissing(f) ==
    files[f] = (IF f = "categories" THEN FormatCategories(DefaultCategories)
                ELSE FormatTags(<<>>))

\* initialize(): a config file is missing and the vault rejects createFolder()
\* or create(); ensureExists() is awaited before the try block, so the
\* rejection is initialize()'s own
InitEnsureThrows(f) ==
    /\ MaybeMissing(f)
    /\ cev' = CEv("initThrew", f, <<>>, FALSE, {})
    /\ UNCHANGED <<status, debounceTimer, lastPushedCategories, lastPushedTags, files,
                   cfgOps, lastPush, writtenBy>>

\* an initialize() that pulls the categories whatever the server answers
InitGotCategoriesAlwaysWrites(o, v) ==
    /\ cfgOps[o].kind = "init"
    /\ cfgOps[o].pc = "get"
    /\ cfgOps[o].f = "categories"
    /\ v \in ServerValues("categories") \cup {<<>>}
    /\ files' = [files EXCEPT !["categories"] = WriteFile("categories", v)]
    /\ HandleFileChange("categories")
    /\ writtenBy' = [writtenBy EXCEPT !["categories"] = "init"]
    /\ cfgOps' = [cfgOps EXCEPT ![o].pc = "write", ![o].val = v,
                                ![o].tr = @ \o <<IF v = <<>> THEN "gotEmpty" ELSE "gotList",
                                                 "writeCategories">>]
    /\ cev' = CEv("initGot", "categories", <<>>, FALSE, {})
    /\ UNCHANGED <<lastPushedCategories, lastPushedTags, lastPush>>

\* initialize: getCategories() resolves with v. An empty list is the first
\* contact: the local categories are read to be sent with pluginInit();
\* otherwise the server's list is written to the file
InitGotCategories(o, v) ==
    /\ cfgOps[o].kind = "init"
    /\ cfgOps[o].pc = "get"
    /\ cfgOps[o].f = "categories"
    /\ v \in ServerValues("categories") \cup {<<>>}
    /\ IF v = <<>>
       THEN /\ cfgOps' = [cfgOps EXCEPT ![o].pc = "readLocal",
                                        ![o].tr = Append(@, "gotEmpty")]
            /\ cev' = CEv("initGot", "categories", <<>>, FALSE, {})
            /\ UNCHANGED <<status, debounceTimer, files, writtenBy>>
       ELSE /\ files' = [files EXCEPT !["categories"] = WriteFile("categories", v)]
            /\ HandleFileChange("categories")
            /\ writtenBy' = [writtenBy EXCEPT !["categories"] = "init"]
            /\ cfgOps' = [cfgOps EXCEPT ![o].pc = "write", ![o].val = v,
                                        ![o].tr = @ \o <<"gotList", "writeCategories">>]
            /\ cev' = CEv("initGot", "categories", <<>>, FALSE, {})
    /\ UNCHANGED <<lastPushedCategories, lastPushedTags, lastPush>>

\* initialize: categoriesManager.read() resolves and pluginInit() is called
InitReadLocal(o) ==
    /\ cfgOps[o].kind = "init"
    /\ cfgOps[o].pc = "readLocal"
    /\ cfgOps' = [cfgOps EXCEPT ![o].pc = "pluginInit",
                                ![o].val = ReadFile("categories"),
                                ![o].tr = Append(@, "pluginInit")]
    /\ cev' = CEv("initRead", "categories", <<>>, FALSE, ReadNotices("categories"))
    /\ UNCHANGED <<status, debounceTimer, lastPushedCategories, lastPushedTags, files,
                   lastPush, writtenBy>>

\* initialize: pluginInit() resolves, or the write of the categories does;
\* getTags() is called
InitCategoriesDone(o) ==
    /\ cfgOps[o].kind = "init"
    /\ cfgOps[o].f = "categories"
    /\ cfgOps[o].pc \in {"pluginInit", "write"}
    /\ cfgOps' = [cfgOps EXCEPT ![o] =
                    [IdleCfgOp EXCEPT !.kind = "init", !.pc = "get", !.f = "tags",
                                      !.tr = cfgOps[o].tr]]
    /\ cev' = CEv("initCategories", "categories", <<>>, FALSE,
                  IF cfgOps[o].pc = "pluginInit" THEN {"plugin connected"} ELSE {})
    /\ UNCHANGED <<status, debounceTimer, lastPushedCategories, lastPushedTags, files,
                   lastPush, writtenBy>>

\* initialize: getTags() resolves with v, which is written to the file
InitGotTags(o, v) ==
    /\ cfgOps[o].kind = "init"
    /\ cfgOps[o].pc = "get"
    /\ cfgOps[o].f = "tags"
    /\ v \in ServerValues("tags")
    /\ files' = [files EXCEPT !["tags"] = WriteFile("tags", v)]
    /\ HandleFileChange("tags")
    /\ writtenBy' = [writtenBy EXCEPT !["tags"] = "init"]
    /\ cfgOps' = [cfgOps EXCEPT ![o].pc = "write", ![o].val = v,
                                ![o].tr = @ \o <<"gotTags", "writeTags">>]
    /\ cev' = CEv("initGot", "tags", <<>>, FALSE, {})
    /\ UNCHANGED <<lastPushedCategories, lastPushedTags, lastPush>>

\* initialize: the write of the tags resolves; setStatus("synced")
InitDone(o) ==
    /\ cfgOps[o].kind = "init"
    /\ cfgOps[o].f = "tags"
    /\ cfgOps[o].pc = "write"
    /\ status' = "synced"
    /\ cfgOps' = Release(o)
    /\ cev' = [CEv("initDone", "tags", <<>>, FALSE, {}) EXCEPT !.init = cfgOps[o].tr]
    /\ UNCHANGED <<debounceTimer, lastPushedCategories, lastPushedTags, files,
                   lastPush, writtenBy>>

\* initialize: getCategories(), pluginInit() or getTags() rejects with e
InitFail(o, e) ==
    /\ cfgOps[o].kind = "init"
    /\ cfgOps[o].pc \in {"get", "pluginInit"}
    /\ e \in {"err", "rte"}
    /\ status' = IF e = "rte" THEN "error" ELSE "offline"
    /\ cfgOps' = Release(o)
    /\ cev' = CEv("initFailed", cfgOps[o].f, <<>>, FALSE,
                  IF e = "rte" THEN {"token expired"} ELSE {})
    /\ UNCHANGED <<debounceTimer, lastPushedCategories, lastPushedTags, files,
                   lastPush, writtenBy>>

(***************************************************************************)
(* requestWithRetry(): one call at a time, its attempts failing with the   *)
(* errors requestUrl and the timeout race produce.  An error is the text   *)
(* String(error) yields, as a sequence of characters, next to the failure  *)
(* it came from (kind, status).                                            *)
(***************************************************************************)
Digits == <<"0", "1", "2", "3", "4", "5", "6", "7", "8", "9">>
IsDigit(c) == \E d \in 1..10 : Digits[d] = c
DigitValue(c) == (CHOOSE d \in 1..10 : Digits[d] = c) - 1

RECURSIVE DigitsOf(_)
\* the decimal text of n
DigitsOf(n) ==
    IF n < 10 THEN <<Digits[n + 1]>>
    ELSE Append(DigitsOf(n \div 10), Digits[(n % 10) + 1])

RECURSIVE ParseDigits(_, _, _)
\* parseInt of the run of digits of m that starts at i
ParseDigits(m, i, acc) ==
    IF i > Len(m) \/ ~IsDigit(m[i]) THEN acc
    ELSE ParseDigits(m, i + 1, acc * 10 + DigitValue(m[i]))

StatusPrefix == <<"s", "t", "a", "t", "u", "s", " ">>
NoStatus == -1         \* null

\* /status (\d+)/ matches m at position i
MatchesAt(m, i) ==
    /\ i + Len(StatusPrefix) <= Len(m)
    /\ SubSeq(m, i, i + Len(StatusPrefix) - 1) = StatusPrefix
    /\ IsDigit(m[i + Len(StatusPrefix)])

\* extractHttpStatus(error): String(error).match(/status (\d+)/)
extractHttpStatus(error) ==
    LET m == error.msg
    IN  IF \E i \in 1..Len(m) : MatchesAt(m, i)
        THEN LET i == CHOOSE k \in 1..Len(m) :
                        MatchesAt(m, k) /\ \A j \in 1..(k - 1) : ~MatchesAt(m, j)
             IN  ParseDigits(m, i + Len(StatusPrefix), 0)
        ELSE NoStatus

\* a classification that retries server errors only
isRetryableOnly5xx(error) ==
    LET code == extractHttpStatus(error)
    IN  IF code = NoStatus THEN TRUE
        ELSE code >= 500

\* isRetryable(error)
isRetryable(error) ==
    LET code == extractHttpStatus(error)
    IN  IF code = NoStatus THEN TRUE
        ELSE IF code = 408 \/ code = 429 \/ code >= 500 THEN TRUE
        ELSE FALSE

\* requestUrl rejects a response of status st
HttpError(st) ==
    [kind |-> "http", status |-> st,
     msg |-> <<"E", "r", "r", "o", "r", ":", " ", "R", "e", "q", "u", "e",
               "s", "t", " ", "f", "a", "i", "l", "e", "d", ",", " ", "s",
               "t", "a", "t", "u", "s", " ">>
             \o DigitsOf(st)]
\* requestUrl rejects without a response
NetworkError ==
    [kind |-> "network", status |-> 0,
     msg |-> <<"E", "r", "r", "o", "r", ":", " ", "n", "e", "t", ":", ":",
               "E", "R", "R", "_", "C", "O", "N", "N", "E", "C", "T", "I",
               "O", "N", "_", "R", "E", "F", "U", "S", "E", "D">>]
\* the timer of timedRequest() wins the race
TimeoutError ==
    [kind |-> "timeout", status |-> 0,
     msg |-> <<"E", "r", "r", "o", "r", ":", " ", "R", "e", "q", "u", "e",
               "s", "t", " ", "t", "i", "m", "e", "d", " ", "o", "u", "t",
               " ", "a", "f", "t", "e", "r", " ", "3", "0", "0", "0", "m",
               "s">>]
NoError == [kind |-> "none", status |-> 0, msg |-> << >>]

\* the statuses requestUrl rejects a response for
ErrorStatuses == 400..599
AttemptErrors == {HttpError(st) : st \in ErrorStatuses} \cup {NetworkError, TimeoutError}

\* the two ways the client calls it: an API request, a token renewal
RetryPolicies ==
    {[maxRetries |-> REQUEST_MAX_RETRIES, baseDelayMs |-> REQUEST_BASE_DELAY_MS],
     [maxRetries |-> REFRESH_MAX_RETRIES, baseDelayMs |-> REFRESH_BASE_DELAY_MS]}

\* pc: "idle", "attempt" (timedRequest in flight), "sleep", "done"
\* attempt: the loop variable; sent: the timedRequest calls made so far;
\* waited: the sleeps completed so far, in ms
IdleRwr == [pc |-> "idle", maxRetries |-> 0, baseDelayMs |-> 0, attempt |-> 0,
            sent |-> 0, lastError |-> NoError, retryable |-> FALSE, delay |-> 0,
            out |-> "none", thrown |-> NoError, waited |-> 0]

\* a delay that grows by baseDelayMs per attempt
BackoffDelayLinear(baseDelayMs, attempt) == baseDelayMs * (attempt + 1)

\* const delay = baseDelayMs * 2 ** attempt
BackoffDelay(baseDelayMs, attempt) == baseDelayMs * Pow2(attempt)

\* requestWithRetry(params, maxRetries, baseDelayMs) is called: first attempt
RwrCall(p) ==
    /\ rt.pc \in {"idle", "done"}
    /\ p \in RetryPolicies
    /\ rt' = IF 0 < p.maxRetries
             THEN [IdleRwr EXCEPT !.pc = "attempt", !.maxRetries = p.maxRetries,
                                  !.baseDelayMs = p.baseDelayMs, !.sent = 1]
             ELSE [IdleRwr EXCEPT !.pc = "done", !.maxRetries = p.maxRetries,
                                  !.baseDelayMs = p.baseDelayMs, !.out = "threw"]

\* return await timedRequest(params)
AttemptOk ==
    /\ rt.pc = "attempt"
    /\ rt' = [rt EXCEPT !.pc = "done", !.out = "ok"]

\* an attempt that is repeated whatever its error was
AttemptFailRetriesAll(e) ==
    /\ rt.pc = "attempt"
    /\ e \in AttemptErrors
    /\ rt' = IF rt.attempt = rt.maxRetries - 1
             THEN [rt EXCEPT !.pc = "done", !.lastError = e,
                             !.retryable = isRetryable(e),
                             !.out = "threw", !.thrown = e]
             ELSE [rt EXCEPT !.pc = "sleep", !.lastError = e,
                             !.retryable = isRetryable(e),
                             !.delay = BackoffDelay(rt.baseDelayMs, rt.attempt)]

\* the catch block: the attempt failed with e
AttemptFail(e) ==
    /\ rt.pc = "attempt"
    /\ e \in AttemptErrors
    /\ rt' = IF ~isRetryable(e) \/ rt.attempt = rt.maxRetries - 1
             THEN [rt EXCEPT !.pc = "done", !.lastError = e,
                             !.retryable = isRetryable(e),
                             !.out = "threw", !.thrown = e]
             ELSE [rt EXCEPT !.pc = "sleep", !.lastError = e,
                             !.retryable = isRetryable(e),
                             !.delay = BackoffDelay(rt.baseDelayMs, rt.attempt)]

\* sleep(delay) resolves: attempt++, the next timedRequest(params)
BackoffDone ==
    /\ rt.pc = "sleep"
    /\ rt' = [rt EXCEPT !.pc = "attempt", !.attempt = @ + 1, !.sent = @ + 1,
                        !.waited = @ + rt.delay]

(***************************************************************************)
(* Batch siblings (SyncEngine.sync with buildBatchSiblings)                *)
(* A fetched note is [id, name, bid]: bid 0 is a note without              *)
(* source_batch_id.                                                        *)
(***************************************************************************)
(* NoteWriter (src/note-writer.ts) over the vault. A note file is the      *)
(* sequence of the note contents written into it and the frontmatter's     *)
(* "updated" value; a note is its id (also its content and created_at),    *)
(* the path createNew() derives from its category, name and created_at,    *)
(* and its append_to path ("" when absent).                                *)
(***************************************************************************)
WPaths == {"work/a.md", "work/b.md"}
NoFile == [body |-> <<>>, updated |-> 0]
WNotes == [id : 1..MaxWNotes, path : WPaths, append_to : WPaths \cup {""}]
NoNote == [id |-> 0, path |-> "", append_to |-> ""]

WriterInit ==
    /\ vault = [p \in WPaths |-> NoFile]
    /\ archive = [p \in WPaths |-> NoFile]
    /\ wev = [op |-> "init", note |-> NoNote, ret |-> ""]

\* createNew(note): null when a file is already at the note's path,
\* otherwise the file is created
createNew(v, a, note) ==
    IF v[note.path] # NoFile
    THEN [vault |-> v, archive |-> a, ret |-> "null"]
    ELSE [vault |-> [v EXCEPT ![note.path] = [body |-> <<note.id>>, updated |-> 0]],
          archive |-> a, ret |-> note.path]

\* appendToExisting(note): the target is restored from the archive if it is
\* only there; without a target the note is created as new; otherwise the
\* separator and the content are appended and "updated" is set
appendToExisting(v, a, note) ==
    LET target == note.append_to
        restore == v[target] = NoFile /\ a[target] # NoFile
        v1 == IF restore THEN [v EXCEPT ![target] = a[target]] ELSE v
        a1 == IF restore THEN [a EXCEPT ![target] = NoFile] ELSE a
    IN  IF v1[target] = NoFile
        THEN createNew(v1, a1, note)
        ELSE [vault |-> [v1 EXCEPT ![target] = [body |-> Append(@.body, note.id),
                                                updated |-> note.id]],
              archive |-> a1, ret |-> target]

\* write(note)
write(v, a, note) ==
    IF note.append_to # "" THEN appendToExisting(v, a, note)
    ELSE createNew(v, a, note)

\* the engine hands note n to writer.write()
WriteNote(n) ==
    LET r == write(vault, archive, n)
    IN  /\ n \in WNotes
        /\ \A p \in WPaths : Len(r.vault[p].body) <= MaxBody
        /\ vault' = r.vault
        /\ archive' = r.archive
        /\ wev' = [op |-> "write", note |-> n, ret |-> r.ret]

\* NoteArchiver.archive(file): the user archives the note at path p
ArchiveNote(p) ==
    /\ p \in WPaths
    /\ vault[p] # NoFile
    /\ archive[p] = NoFile
    /\ archive' = [archive EXCEPT ![p] = vault[p]]
    /\ vault' = [vault EXCEPT ![p] = NoFile]
    /\ wev' = [op |-> "archive", note |-> NoNote, ret |-> p]

(***************************************************************************)
BatchIds == 1..MaxBatchIds

\* the display name of note id
NoteName(id) == 10 + id

\* the batches fetchUnsynced() can answer
Batches ==
    UNION {{[k \in 1..n |-> [id |-> k, name |-> NoteName(k), bid |-> b[k]]] :
              b \in [1..n -> 0..MaxBatchIds]} : n \in 0..MaxBatch}

\* first pass: the notes that carry a source_batch_id, grouped by it in fetch
\* order
RECURSIVE GroupByBatch(_, _)
GroupByBatch(notes, groups) ==
    IF notes = << >> THEN groups
    ELSE LET n == Head(notes)
         IN  GroupByBatch(Tail(notes),
                          IF n.bid = 0 THEN groups
                          ELSE [groups EXCEPT ![n.bid] = Append(@, n)])

NamesOf(group) == [j \in 1..Len(group) |-> group[j].name]

\* the note's own name is left among its siblings
BuildBatchSiblingsWithSelf(notes) ==
    LET groups == GroupByBatch(notes, [b \in BatchIds |-> << >>])
        big == {b \in BatchIds : Len(groups[b]) >= 2}
        ids == UNION {{groups[b][j].id : j \in 1..Len(groups[b])} : b \in big}
        bidOf(id) == notes[CHOOSE k \in 1..Len(notes) : notes[k].id = id].bid
    IN  [id \in ids |-> NamesOf(groups[bidOf(id)])]

\* buildBatchSiblings(notes): second pass, for every group of two or more, each
\* note's id is mapped to the names of the others
BuildBatchSiblings(notes) ==
    LET groups == GroupByBatch(notes, [b \in BatchIds |-> << >>])
        big == {b \in BatchIds : Len(groups[b]) >= 2}
        ids == UNION {{groups[b][j].id : j \in 1..Len(groups[b])} : b \in big}
        bidOf(id) == notes[CHOOSE k \in 1..Len(notes) : notes[k].id = id].bid
    IN  [id \in ids |->
            NamesOf(SelectSeq(groups[bidOf(id)], LAMBDA n : n.id # id))]

\* the write loop dispatches the next note: writer.write(note, siblings.get(note.id))
SiblingWrite ==
    /\ Len(sbCalls) < Len(sbNotes)
    /\ LET note == sbNotes[Len(sbCalls) + 1]
           siblings == BuildBatchSiblings(sbNotes)
       IN  sbCalls' = Append(sbCalls,
                             [id |-> note.id,
                              siblings |-> IF note.id \in DOMAIN siblings
                                           THEN siblings[note.id] ELSE << >>])
    /\ UNCHANGED sbNotes

\* the steps of a cycle in flight
CycleNext ==
    \/ \E t \in TaskIds : FetchOk(t)
    \/ \E t \in TaskIds, e \in {"err", "rte"} : FetchFail(t, e)
    \/ \E t \in TaskIds, r \in {"path", "null", "threw"} : WriteDone(t, r)
    \/ \E t \in TaskIds : MarkOk(t)
    \/ \E t \in TaskIds, e \in {"err", "rte"} : MarkFail(t, e)
    \/ \E t \in TaskIds, r \in {"empty", "paths", "threw"} : ScanDone(t, r)
    \/ \E t \in TaskIds, r \in {"ok", "err", "rte"} : ReconcileDone(t, r)

(***************************************************************************)
(* The server's copy of the configuration, changed by this client only:    *)
(* updateCategories / updateTags store what they are sent, getCategories / *)
(* getTags answer what is stored.                                          *)
(***************************************************************************)
\* the server holds what initialize() left on both sides: the defaults
ServerInit ==
    srvCfg = [f \in Files |-> IF f = "categories" THEN DefaultCategories ELSE <<>>]

\* updateCategories / updateTags resolves: the server has stored the value
ServerPushOk(o) ==
    /\ cfgOps[o].kind = "push"
    /\ cfgOps[o].pc = "updating"
    /\ srvCfg' = [srvCfg EXCEPT ![cfgOps[o].f] = cfgOps[o].val]
    /\ PushOk(o)

\* updateCategories / updateTags rejects: the request did not reach the
\* server, or (stored) the server stored the value and its answer was lost
ServerPushFail(o, e, stored) ==
    /\ cfgOps[o].kind = "push"
    /\ cfgOps[o].pc = "updating"
    /\ stored => e = "err"
    /\ srvCfg' = IF stored THEN [srvCfg EXCEPT ![cfgOps[o].f] = cfgOps[o].val]
                 ELSE srvCfg
    /\ PushFail(o, e)

\* getCategories / getTags resolves with what the server holds
ServerPullGot(o) ==
    /\ cfgOps[o].kind = "pull"
    /\ cfgOps[o].pc = "get"
    /\ PullGot(o, srvCfg[cfgOps[o].f])
    /\ UNCHANGED srvCfg

Init ==
    /\ EngineInit /\ AuthInit /\ ConfigInit
    /\ sbNotes = << >> /\ sbCalls = << >>
    /\ rt = IdleRwr
    /\ WriterInit
    /\ ServerInit

(***************************************************************************)
(* Spec: the engine's cycles over batches of up to MaxNotes notes, started *)
(* by start(), by the interval and by direct sync() calls.                 *)
(***************************************************************************)
Next ==
    /\ \/ \E b \in BaseIntervals : Start(b)
       \/ TimerTick
       \/ DirectSync
       \/ SetArchiveScanner
       \/ \E n \in NoteIds : NewNote(n)
       \/ CycleNext
    /\ consecutiveFailures' <= MaxFailures
    /\ UNCHANGED <<authVars, cfgVars, sibVars, rtVars, nwVars, srvVars>>

Spec == Init /\ [][Next]_vars

(***************************************************************************)
(* SpecSched: every entry point of the engine (start, stop, interval,      *)
(* manualSync, sync) over batches of up to MaxSchedNotes notes.            *)
(***************************************************************************)
SchedNext ==
    /\ \/ \E b \in BaseIntervals : Start(b)
       \/ Stop
       \/ TimerTick
       \/ DirectSync
       \/ ManualSync
       \/ SetArchiveScanner
       \/ \E n \in 1..MaxSchedNotes : NewNote(n)
       \/ CycleNext
    /\ consecutiveFailures' <= MaxSchedFailures
    /\ UNCHANGED <<authVars, cfgVars, sibVars, rtVars, nwVars, srvVars>>

SpecSched == Init /\ [][SchedNext]_vars

(***************************************************************************)
(* SpecClock: the manual-sync cooldown against the clock, with an empty    *)
(* server.                                                                 *)
(***************************************************************************)
ClockNext ==
    /\ \/ \E b \in BaseIntervals : Start(b)
       \/ Stop
       \/ TimerTick
       \/ ManualSync
       \/ ClockTick
       \/ \E t \in TaskIds : FetchOk(t)
       \/ \E t \in TaskIds, e \in {"err", "rte"} : FetchFail(t, e)
    /\ consecutiveFailures' <= MaxSchedFailures
    /\ UNCHANGED <<authVars, cfgVars, sibVars, rtVars, nwVars, srvVars>>

SpecClock == Init /\ [][ClockNext]_vars

(***************************************************************************)
(* SpecBackoff: the scheduler alone (start, stop, the interval) against a  *)
(* server with no notes whose fetches keep failing, so that the failure    *)
(* counter passes the cap of the backoff.  Every cycle here is run by      *)
(* syncAndSchedule(), which re-arms the interval when the cycle ends.      *)
(***************************************************************************)
BackoffNext ==
    /\ \/ \E b \in BaseIntervals : Start(b)
       \/ Stop
       \/ TimerTick
       \/ \E t \in TaskIds : FetchOk(t)
       \/ \E t \in TaskIds, e \in {"err", "rte"} : FetchFail(t, e)
    /\ consecutiveFailures' <= MaxBackoffFailures
    /\ UNCHANGED <<authVars, cfgVars, sibVars, rtVars, nwVars, srvVars>>

SpecBackoff == Init /\ [][BackoffNext]_vars

(***************************************************************************)
(* SpecAuth: the API client under concurrent request() calls               *)
(***************************************************************************)
AuthNext ==
    /\ \/ \E r \in ReqIds : Request(r)
       \/ \E o \in OpIds : ExchangeOk(o)
       \/ \E o \in OpIds : ExchangeReject(o)
       \/ \E o \in OpIds : ExchangeErr(o)
       \/ \E o \in OpIds : SaveDone(o)
       \/ \E r \in ReqIds : Retry(r)
       \/ \E r \in ReqIds, res \in {"ok", "401", "err"} : Call1Done(r, res)
       \/ \E r \in ReqIds, res \in {"ok", "401", "err"} : Call2Done(r, res)
       \/ \E v \in {0, UserToken} : PasteToken(v)
       \/ AuthTick
    /\ UNCHANGED <<engineVars, cfgVars, sibVars, rtVars, nwVars, srvVars>>

SpecAuth == Init /\ [][AuthNext]_vars

(***************************************************************************)
(* SpecConfig: ConfigSync under user edits, debounced pushes and manual    *)
(* pulls.                                                                  *)
(***************************************************************************)
ConfigNext ==
    /\ \/ \E f \in Files : \E x \in Texts(f) : Modify(f, x)
       \/ DebounceFire
       \/ \E o \in CfgOpIds : PushRead(o)
       \/ \E o \in CfgOpIds : PushOk(o)
       \/ \E o \in CfgOpIds, e \in {"err", "rte"} : PushFail(o, e)
       \/ ConfigManualSync
       \/ \E o \in CfgOpIds : \E v \in ServerValues(cfgOps[o].f) : PullGot(o, v)
       \/ \E o \in CfgOpIds : PullWritten(o)
       \/ \E o \in CfgOpIds, e \in {"err", "rte"} : PullFail(o, e)
    /\ UNCHANGED <<engineVars, authVars, sibVars, rtVars, nwVars, srvVars>>

SpecConfig == Init /\ [][ConfigNext]_vars

(***************************************************************************)
(* SpecDebounce: SpecConfig with a debounce timeout that fires in the end  *)
(* and calls that settle in the end.                                       *)
(***************************************************************************)
ConfigFrame == UNCHANGED <<engineVars, authVars, sibVars, rtVars, nwVars, srvVars>>

\* window.setTimeout: a pending timeout fires; every read, write and network
\* call of an invocation in flight settles
DebounceFairness ==
    /\ SF_vars(DebounceFire /\ ConfigFrame)
    /\ WF_vars((\E o \in CfgOpIds : PushRead(o)) /\ ConfigFrame)
    /\ WF_vars((\E o \in CfgOpIds : PushOk(o) \/ \E e \in {"err", "rte"} : PushFail(o, e))
               /\ ConfigFrame)
    /\ WF_vars((\E o \in CfgOpIds :
                   \/ \E v \in ServerValues(cfgOps[o].f) : PullGot(o, v)
                   \/ \E e \in {"err", "rte"} : PullFail(o, e))
               /\ ConfigFrame)
    /\ WF_vars((\E o \in CfgOpIds : PullWritten(o)) /\ ConfigFrame)

SpecDebounce == Init /\ [][ConfigNext]_vars /\ DebounceFairness

(***************************************************************************)
(* SpecServer: ConfigSync under user edits, debounced pushes and manual    *)
(* pulls against a server whose configuration only this client changes.    *)
(***************************************************************************)
ServerNext ==
    /\ \/ /\ \/ \E f \in Files : \E x \in Texts(f) : Modify(f, x)
             \/ DebounceFire
             \/ \E o \in CfgOpIds : PushRead(o)
             \/ ConfigManualSync
             \/ \E o \in CfgOpIds : PullWritten(o)
             \/ \E o \in CfgOpIds, e \in {"err", "rte"} : PullFail(o, e)
          /\ UNCHANGED srvCfg
       \/ \E o \in CfgOpIds : ServerPushOk(o)
       \/ \E o \in CfgOpIds, e \in {"err", "rte"}, stored \in BOOLEAN :
              ServerPushFail(o, e, stored)
       \/ \E o \in CfgOpIds : ServerPullGot(o)
    /\ UNCHANGED <<engineVars, authVars, sibVars, rtVars, nwVars>>

SpecServer == Init /\ [][ServerNext]_vars

(***************************************************************************)
(* SpecInit: ConfigSync under initialize(), user edits and debounced       *)
(* pushes.                                                                 *)
(***************************************************************************)
InitNext ==
    /\ \/ \E f \in Files : \E x \in Texts(f) : Modify(f, x)
       \/ DebounceFire
       \/ \E o \in CfgOpIds : PushRead(o)
       \/ \E o \in CfgOpIds : PushOk(o)
       \/ \E o \in CfgOpIds, e \in {"err", "rte"} : PushFail(o, e)
       \/ Initialize
       \/ \E f \in Files : InitEnsureThrows(f)
       \/ \E o \in CfgOpIds : \E v \in ServerValues("categories") \cup {<<>>} :
              InitGotCategories(o, v)
       \/ \E o \in CfgOpIds : InitReadLocal(o)
       \/ \E o \in CfgOpIds : InitCategoriesDone(o)
       \/ \E o \in CfgOpIds : \E v \in ServerValues("tags") : InitGotTags(o, v)
       \/ \E o \in CfgOpIds : InitDone(o)
       \/ \E o \in CfgOpIds, e \in {"err", "rte"} : InitFail(o, e)
    /\ UNCHANGED <<engineVars, authVars, sibVars, rtVars, nwVars, srvVars>>

SpecInit == Init /\ [][InitNext]_vars

(***************************************************************************)
(* SpecHandshake: initialize() invocations against the user's edits, with  *)
(* no push running.                                                        *)
(***************************************************************************)
HandshakeNext ==
    /\ \/ \E f \in Files : \E x \in Texts(f) : Modify(f, x)
       \/ Initialize
       \/ \E o \in CfgOpIds : \E v \in ServerValues("categories") \cup {<<>>} :
              InitGotCategories(o, v)
       \/ \E o \in CfgOpIds : InitReadLocal(o)
       \/ \E o \in CfgOpIds : InitCategoriesDone(o)
       \/ \E o \in CfgOpIds : \E v \in ServerValues("tags") : InitGotTags(o, v)
       \/ \E o \in CfgOpIds : InitDone(o)
       \/ \E o \in CfgOpIds, e \in {"err", "rte"} : InitFail(o, e)
    /\ UNCHANGED <<engineVars, authVars, sibVars, rtVars, nwVars, srvVars>>

SpecHandshake == Init /\ [][HandshakeNext]_vars

(***************************************************************************)
(* SpecSiblings: the write loop over every batch of up to MaxBatch notes   *)
(***************************************************************************)
SiblingsInit ==
    /\ EngineInit /\ AuthInit /\ ConfigInit
    /\ sbNotes \in Batches
    /\ sbCalls = << >>
    /\ rt = IdleRwr
    /\ WriterInit
    /\ ServerInit

SiblingsNext == SiblingWrite /\ UNCHANGED <<engineVars, authVars, cfgVars, rtVars, nwVars, srvVars>>

SpecSiblings == SiblingsInit /\ [][SiblingsNext]_vars

(***************************************************************************)
(* SpecRetry: calls of requestWithRetry() under both retry policies        *)
(***************************************************************************)
RetryNext ==
    /\ \/ \E p \in RetryPolicies : RwrCall(p)
       \/ AttemptOk
       \/ \E e \in AttemptErrors : AttemptFail(e)
       \/ BackoffDone
    /\ UNCHANGED <<engineVars, authVars, cfgVars, sibVars, nwVars, srvVars>>

SpecRetry == Init /\ [][RetryNext]_vars

(***************************************************************************)
(* SpecWriter: notes written, and written again, into a vault in which     *)
(* the user archives files                                                 *)
(***************************************************************************)
WriterNext ==
    /\ \/ \E n \in WNotes : WriteNote(n)
       \/ \E p \in WPaths : ArchiveNote(p)
    /\ UNCHANGED <<engineVars, authVars, cfgVars, sibVars, rtVars, srvVars>>

SpecWriter == Init /\ [][WriterNext]_vars

(***************************************************************************)
(* SpecLive: the engine started and stopped, its interval firing, against  *)
(* a server that answers in the end and a vault in which the write of each *)
(* note succeeds in the end.  The credential stays valid: no call rejects  *)
(* with RefreshTokenExpiredError.                                          *)
(***************************************************************************)
LiveFrame ==
    /\ consecutiveFailures' <= MaxFailures
    /\ UNCHANGED <<authVars, cfgVars, sibVars, rtVars, nwVars, srvVars>>

\* the write of note n settles without throwing
WriteOkOf(t, n) ==
    /\ tasks[t].pc = "writing"
    /\ tasks[t].notes[tasks[t].i] = n
    /\ \E r \in {"path", "null"} : WriteDone(t, r)

\* markSynced resolves for a batch of ids that holds n
MarkOkOf(t, n) ==
    /\ tasks[t].pc = "marking"
    /\ n \in SeqToSet(tasks[t].markArg)
    /\ MarkOk(t)

LiveNext ==
    /\ \/ \E b \in BaseIntervals : Start(b)
       \/ Stop
       \/ TimerTick
       \/ \E n \in 1..MaxSchedNotes : NewNote(n)
       \/ \E t \in TaskIds : FetchOk(t)
       \/ \E t \in TaskIds : FetchFail(t, "err")
       \/ \E t \in TaskIds, r \in {"path", "null", "threw"} : WriteDone(t, r)
       \/ \E t \in TaskIds : MarkOk(t)
       \/ \E t \in TaskIds : MarkFail(t, "err")
       \/ SetArchiveScanner
       \/ \E t \in TaskIds, r \in {"empty", "paths", "threw"} : ScanDone(t, r)
       \/ \E t \in TaskIds, r \in {"ok", "err"} : ReconcileDone(t, r)
    /\ LiveFrame

\* the interval fires; every call in flight settles; the fetch, the write of
\* each note and the acknowledgement of each note succeed in the end
LiveFairness ==
    /\ WF_vars(TimerTick /\ LiveFrame)
    /\ SF_vars((\E t \in TaskIds : FetchOk(t)) /\ LiveFrame)
    /\ WF_vars((\E t \in TaskIds, r \in {"path", "null", "threw"} : WriteDone(t, r))
               /\ LiveFrame)
    /\ WF_vars((\E t \in TaskIds : MarkOk(t) \/ MarkFail(t, "err")) /\ LiveFrame)
    /\ WF_vars((\E t \in TaskIds, r \in {"empty", "paths", "threw"} : ScanDone(t, r))
               /\ LiveFrame)
    /\ WF_vars((\E t \in TaskIds, r \in {"ok", "err"} : ReconcileDone(t, r))
               /\ LiveFrame)
    /\ \A n \in 1..MaxSchedNotes : SF_vars((\E t \in TaskIds : WriteOkOf(t, n)) /\ LiveFrame)
    /\ \A n \in 1..MaxSchedNotes : SF_vars((\E t \in TaskIds : MarkOkOf(t, n)) /\ LiveFrame)

SpecLive == Init /\ [][LiveNext]_vars /\ LiveFairness

(***************************************************************************)
(* Properties of the sync engine                                           *)
(***************************************************************************)
Marking(t) == tasks[t].pc = "marking"

\* C1: in every cycle the id list passed to markSynced holds the id of every
\* fetched note whose write returned a path or null, and no id of a note
\* whose write threw.
C1_MarkSyncedIds ==
    \A t \in TaskIds :
        Marking(t) =>
            \A k \in 1..Len(tasks[t].notes) :
                /\ tasks[t].results[k] \in {"path", "null"}
                       => tasks[t].notes[k] \in SeqToSet(tasks[t].markArg)
                /\ tasks[t].results[k] = "threw"
                       => tasks[t].notes[k] \notin SeqToSet(tasks[t].markArg)

\* a markSynced call in flight for a batch with a thrown and a deduplicated write
C1_Witness ==
    \E t \in TaskIds :
        /\ Marking(t)
        /\ \E k \in 1..Len(tasks[t].results) : tasks[t].results[k] = "threw"
        /\ \E k \in 1..Len(tasks[t].results) : tasks[t].results[k] = "null"

\* C2: a cycle whose fetchUnsynced threw calls neither writer.write nor
\* markSynced, while it runs and when it has ended.
C2_FetchThrowsNoWriteNoMark ==
    /\ \A t \in TaskIds :
           tasks[t].fetch \in {"err", "rte"}
               => tasks[t].results = << >> /\ tasks[t].nMark = 0
    /\ (ev.op = "end" /\ ev.fetch \in {"err", "rte"})
           => ev.writes = 0 /\ ev.marks = 0

\* a cycle has just ended on a fetch error while the server held notes
C2_Witness ==
    ev.op = "end" /\ ev.fetch = "err" /\ ev.out = "threw" /\ serverUnsynced # {}

\* C3: a sync() call made while a cycle is in flight returns -1, issues no
\* fetchUnsynced and leaves syncing and consecutiveFailures as they were when
\* sync() was entered (start() zeroes the counter before it calls sync()); at
\* most one cycle is past the guard at any time.
C3_SingleFlight ==
    /\ [](Cardinality({t \in TaskIds : InFlight(t)}) <= 1)
    /\ [][(syncing /\ ev'.op \in {"start", "tick", "sync"})
            => /\ ev'.out = "skipped"
               /\ ev'.ret = -1
               /\ syncing' = syncing
               /\ tasks' = tasks
               /\ consecutiveFailures'
                    = (IF ev'.op = "start" THEN 0 ELSE consecutiveFailures)]_vars

\* the interval fired during a cycle and its sync() call was turned away
C3_Witness ==
    /\ ev.op = "tick" /\ ev.out = "skipped" /\ ev.ret = -1
    /\ syncing
    /\ \E t \in TaskIds : InFlight(t)

\* C4: syncing is true exactly while a cycle is in flight; whenever a cycle
\* ends (normally, on a fetch or markSynced error, on
\* RefreshTokenExpiredError) it is false again, and the next sync() call
\* enters a cycle.
C4_LockReleased ==
    /\ [](syncing <=> \E t \in TaskIds : InFlight(t))
    /\ [](ev.op = "end" => ~syncing)
    /\ [][(ev.op = "end" /\ ev'.op \in {"start", "tick", "sync"})
            => ev'.out = "entered"]_vars

\* a cycle has just ended on a markSynced error and the lock is free
C4_Witness ==
    ev.op = "end" /\ ev.out = "threw" /\ ev.marks = 1 /\ ~syncing

\* C5: counting from a counter of 0, after k throwing cycles in a row
\* consecutiveFailures is k, and a successful cycle (an empty one included)
\* puts it back to 0.
C5_FailureCount ==
    /\ streak # -1 => consecutiveFailures = streak
    /\ (ev.op = "end" /\ ev.out = "returned" /\ ev.ret >= 0)
           => consecutiveFailures = 0

\* two cycles in a row have thrown
C5_Witness ==
    streak = 2 /\ consecutiveFailures = 2 /\ ev.op = "end" /\ ev.out = "threw"

\* C8: after a cycle ended with RefreshTokenExpiredError no interval is armed
\* until start() is called again.
C8_NoTimerAfterAuthExpiry ==
    authDead => (timers = {} /\ intervalId = 0)

\* C9: after stop() during a cycle, once that cycle has finished no interval
\* is armed until start() is called.
C9_NoTimerAfterStop ==
    (stopMid /\ ~(\E t \in TaskIds : InFlight(t))) => (timers = {} /\ intervalId = 0)

(***************************************************************************)
(* Properties of the API client                                            *)
(***************************************************************************)
EnsureWaiters == {r \in ReqIds : reqs[r].pc = "ensure"}
EnsureOps == {o \in OpIds : ops[o].pc # "free" /\ ops[o].origin = "ensure"}
Exchanges == {o \in OpIds : ops[o].pc = "exchange"}

\* C6: of the requests that find the access token invalid, one starts a
\* renewal and every other one that arrives while it is in flight waits for
\* that same renewal: ensureAccessToken never has two renewals in flight and
\* every request suspended in it awaits the one this.refreshing holds.
C6_OneSharedRenewal ==
    /\ Cardinality(EnsureOps) <= 1
    /\ \A r \in EnsureWaiters :
           /\ refreshing # 0
           /\ reqs[r].waitOn = refreshing
           /\ refreshing \in EnsureOps
    /\ EnsureWaiters # {} => Cardinality({r \in EnsureWaiters : reqs[r].owner}) = 1

\* two requests are suspended in ensureAccessToken on one exchange in flight
C6_Witness ==
    /\ Cardinality(EnsureWaiters) >= 2
    /\ Cardinality(Exchanges) = 1
    /\ \A r \in EnsureWaiters : reqs[r].waitOn = refreshing

\* C7: at most one POST /v1/auth/refresh is in flight at any time, renewals
\* started by ensureAccessToken and forced renewals after a 401 together.
C7_OneExchangeInFlight ==
    Cardinality(Exchanges) <= 1

(***************************************************************************)
(* Properties of ConfigSync                                                *)
(***************************************************************************)
PushesOf(c, f) == {o \in CfgOpIds : c[o].kind = "push" /\ c[o].f = f}

\* C10: when the last completed pushToServer call was for the same file and
\* ended with a successful update (or was itself skipped), the next push of
\* that file compares against it: with the same parsed content it returns at
\* once with status synced, no update call and no "synced" notification; with
\* different parsed content it issues an update call.
C10_PushIdempotent ==
    [][(cev'.op = "read" /\ cev'.f = lastPush.f /\ lastPush.out \in {"ok", "skipped"})
       => IF cev'.hash = lastPush.hash
          THEN /\ ~cev'.net
               /\ status' = "synced"
               /\ cev'.notices \subseteq {"invalid reminder"}
               /\ Cardinality(PushesOf(cfgOps', cev'.f))
                    = Cardinality(PushesOf(cfgOps, cev'.f)) - 1
          ELSE /\ cev'.net
               /\ Cardinality(PushesOf(cfgOps', cev'.f))
                    = Cardinality(PushesOf(cfgOps, cev'.f))]_vars

\* a push that follows a successful push of the same content has been skipped
C10_Witness ==
    /\ cev.op = "read"
    /\ cev.prev = "ok"
    /\ ~cev.net
    /\ status = "synced"
    /\ lastPush = [f |-> cev.f, hash |-> cev.hash, out |-> "skipped"]

\* C10 as stated: whatever the outcome of the previous push of the file, a
\* push of the same content makes no update call, sets the status to synced
\* and shows no notification, and a push of different content makes the call.
C10_AnyTwoPushes ==
    [][(cev'.op = "read" /\ cev'.f = lastPush.f /\ lastPush.out # "none")
       => IF cev'.hash = lastPush.hash
          THEN ~cev'.net /\ status' = "synced" /\ cev'.notices = {}
          ELSE cev'.net]_vars

\* C11: once pullFromServer() has completed successfully, a push of a file
\* whose content is still what that pull wrote issues no updateCategories /
\* updateTags call.
C11_NoEchoAfterPull ==
    (cev.op = "read" /\ writtenBy[cev.f] = "pulled") => ~cev.net

\* C12: a push of a file whose content is still what initialize() pulled from
\* the server and wrote issues no updateCategories / updateTags call.
C12_NoEchoAfterInitialize ==
    (cev.op = "read" /\ writtenBy[cev.f] = "init") => ~cev.net

\* the notes of a cycle whose write did not throw, in fetch order
OkNotes(tk) ==
    LET idx == SelectSeq([k \in 1..Len(tk.results) |-> k],
                         LAMBDA k : tk.results[k] # "threw")
    IN  [j \in 1..Len(idx) |-> tk.notes[idx[j]]]

\* C13: a cycle calls markSynced at most once, only after every write of the
\* batch has finished, with the ids of the notes whose write did not throw in
\* fetch order; a cycle past its writes has called it exactly when some write
\* did not throw, and a cycle that fetched an empty batch or whose writes all
\* threw has ended without calling it.
C13_MarkSyncedOncePerCycle ==
    /\ \A t \in TaskIds :
           LET tk == tasks[t]
           IN  /\ tk.nMark <= 1
               /\ tk.nMark = 1 =>
                      /\ Len(tk.results) = Len(tk.notes)
                      /\ tk.markArg = OkNotes(tk)
                      /\ tk.markArg # << >>
               /\ tk.pc \in {"marking", "scanning", "reconciling"} =>
                      tk.nMark = (IF OkNotes(tk) # << >> THEN 1 ELSE 0)
    /\ (ev.op = "end" /\ ev.fetch = "ok") =>
           ev.marks = (IF ev.okWrites > 0 THEN 1 ELSE 0)

\* a cycle of two notes, one of whose writes threw, has ended after its one
\* markSynced call
C13_Witness ==
    ev.op = "end" /\ ev.writes = 2 /\ ev.okWrites = 1 /\ ev.marks = 1

C15_OneForcedRenewalOneReissue ==
    /\ [](\A r \in ReqIds :
             /\ reqs[r].forced <= 1 /\ reqs[r].reissued <= 1
             /\ reqs[r].pc = "forced" => reqs[r].forced = 1 /\ reqs[r].reissued = 0
             /\ reqs[r].pc = "call2" => reqs[r].forced = 1 /\ reqs[r].reissued = 1)
    /\ [][\A r \in ReqIds :
             /\ (reqs[r].pc = "call1" /\ reqs'[r].pc = "forced")
                    => Cardinality(Exchanges') = Cardinality(Exchanges) + 1
             /\ (reqs[r].pc = "call2" /\ reqs'[r] # reqs[r])
                    => /\ ops' = ops
                       /\ \/ reqs'[r] = [reqs[r] EXCEPT !.attempt = @ + 1]
                          \/ /\ reqs'[r] = IdleReq
                             /\ aev'.op = "request"
                             /\ aev'.outs[r] \in {"ok", "401", "err"}]_vars

\* a request whose re-issued call was answered 401 again has ended with it
C15_Witness ==
    /\ aev.op = "request"
    /\ \E r \in ReqIds : aev.outs[r] = "401"

\* an attempt of a call of invocation r is sent in this step
Sends(r) ==
    /\ reqs'[r].pc \in {"call1", "call2"}
    /\ reqs[r].pc # reqs'[r].pc \/ reqs[r].attempt # reqs'[r].attempt

\* C16: every attempt of an authenticated call that carries an access token
\* is sent at a time earlier than that token's expiry minus the 60 s margin:
\* first attempts, attempts repeated after a backoff delay, calls of requests
\* that waited for another request's renewal and calls re-issued after a
\* renewal alike.
C16_SentBeforeExpiryMargin ==
    [][\A r \in ReqIds :
          (Sends(r) /\ reqs'[r].tok # 0)
             => anow' < reqs'[r].exp - EXPIRY_MARGIN_MS]_vars

\* the invocations of request() suspended on the doRefresh() invocation o
AwaitingOp(o) == {r \in ReqIds : reqs[r].waitOn = o /\ reqs[r].pc \in {"ensure", "forced"}}
Credentials == <<accessToken, accessTokenExpiresAt, refreshToken>>

C18_BackoffInterval ==
    \A r \in timers :
        /\ r.ms = baseIntervalSec * Min(Pow2(consecutiveFailures), 32) * 1000
        /\ consecutiveFailures = 0 => r.ms = baseIntervalSec * 1000
        /\ r.ms <= 32 * baseIntervalSec * 1000

\* after more than five failed cycles the interval is armed at 32 times the base
C18_Witness ==
    /\ consecutiveFailures > 5
    /\ \E r \in timers : r.id = intervalId /\ r.ms = 32 * baseIntervalSec * 1000

\* C19: a failed attempt is classified retryable exactly when its error
\* carries no HTTP status (a network failure, the per-attempt timeout) or
\* its status is 408, 429 or 5xx; every other 4xx status is terminal.
C19_RetryableClassification ==
    LET e == rt.lastError
    IN  e.kind # "none" =>
          /\ rt.retryable = (\/ e.kind \in {"network", "timeout"}
                             \/ e.status \in {408, 429}
                             \/ e.status \in 500..599)
          /\ (e.kind = "http" /\ e.status \in 400..499 /\ e.status \notin {408, 429})
                => ~rt.retryable

\* a 429 answer was classified retryable and the call sleeps before retrying
C19_Witness ==
    /\ rt.pc = "sleep"
    /\ rt.lastError.kind = "http" /\ rt.lastError.status = 429
    /\ rt.retryable

\* the failure e is terminal: a 4xx answer other than 408 and 429
TerminalFailure(e) ==
    /\ e.kind = "http"
    /\ e.status \in 400..499 \ {408, 429}

\* C20: a call of requestWithRetry(params, maxAttempts, baseDelay) makes at
\* most maxAttempts attempts, makes none after an attempt that succeeded or
\* failed terminally, and when it fails it raises the error of its last
\* attempt.
C20_BoundedAttempts ==
    /\ [](/\ rt.sent <= rt.maxRetries
          /\ rt.out = "ok" => rt.pc = "done"
          /\ rt.out = "threw" => rt.pc = "done" /\ rt.thrown = rt.lastError
          /\ rt.pc = "sleep" => ~TerminalFailure(rt.lastError))
    /\ [][(rt.pc \notin {"idle", "done"} /\ rt'.sent # rt.sent)
             => /\ rt.pc = "sleep"
                /\ rt'.sent = rt.sent + 1
                /\ rt.out = "none"
                /\ rt.sent < rt.maxRetries]_vars

\* all five attempts of a renewal call failed retryably: the fifth error is raised
C20_Witness ==
    /\ rt.out = "threw"
    /\ rt.sent = REFRESH_MAX_RETRIES /\ rt.maxRetries = REFRESH_MAX_RETRIES
    /\ rt.thrown = TimeoutError

\* C21: manualSync() called while a cycle is in flight returns without
\* throwing, issues no fetchUnsynced and leaves nothing behind that would run
\* a cycle later: no task is started and the intervals are as they were.
C21_ManualSyncWhileInFlight ==
    [][(syncing /\ ev'.op = "manual")
          => /\ ev'.out \in {"busy", "cooldown"}
             /\ tasks' = tasks
             /\ timers' = timers /\ intervalId' = intervalId
             /\ syncing' /\ consecutiveFailures' = consecutiveFailures]_vars

\* manualSync() found a cycle in flight and returned after its notice
C21_Witness ==
    /\ ev.op = "manual" /\ ev.out = "busy"
    /\ syncing
    /\ \E t \in TaskIds : tasks[t].pc = "fetching"

\* C22: a pull, push or initialize that fails with RefreshTokenExpiredError
\* leaves the status "error"; a pull or initialize that fails in any other way
\* leaves it "offline"; and none of the three rejects to its caller.
C22_ConfigFailureStatus ==
    /\ (cev.op \in {"pullFailed", "initFailed", "pushFailed"}
           /\ "token expired" \in cev.notices) => status = "error"
    /\ (cev.op \in {"pullFailed", "initFailed"}
           /\ "token expired" \notin cev.notices) => status = "offline"
    /\ cev.op # "initThrew"

\* C23: a cycle in which the archive scanner or the reconcileArchived call
\* threw still ends as a success: sync() returns, with the number of notes
\* written, and consecutiveFailures is 0.
C23_ArchiveFailureIsNotACycleFailure ==
    (ev.op = "end" /\ ev.arch = "threw")
       => /\ ev.out = "returned"
          /\ ev.ret = ev.paths
          /\ consecutiveFailures = 0

\* the reconcileArchived call threw in a cycle that had written a note
C23_Witness ==
    /\ ev.op = "end" /\ ev.arch = "threw"
    /\ ev.recs = 1 /\ ev.paths = 1 /\ ev.ret = 1

\* C24 (as stated): consecutiveFailures grows, by exactly 1, only in the step
\* that ends a cycle with a retryable error; every cycle that ends in another
\* way leaves it at 0; a sync() call skipped by the guard leaves it as it was
\* (start() has set it to 0 before its call).
C24_CounterOnlyOnRetryable ==
    [][/\ consecutiveFailures' > consecutiveFailures
            => /\ ev'.op = "end" /\ ev'.out = "threw"
               /\ consecutiveFailures' = consecutiveFailures + 1
       /\ (ev'.op = "end" /\ ev'.out # "threw") => consecutiveFailures' = 0
       /\ ev'.out = "skipped"
            => consecutiveFailures' = (IF ev'.op = "start" THEN 0
                                       ELSE consecutiveFailures)]_vars

\* C24 (amended): as above, but only a cycle that ends successfully leaves
\* the counter at 0; a cycle that ends with RefreshTokenExpiredError
\* (sync() returns -1 after stop()) leaves it as it was.
C24_CounterByOutcome ==
    [][/\ consecutiveFailures' > consecutiveFailures
            => /\ ev'.op = "end" /\ ev'.out = "threw"
               /\ consecutiveFailures' = consecutiveFailures + 1
       /\ (ev'.op = "end" /\ ev'.out = "threw")
            => consecutiveFailures' = consecutiveFailures + 1
       /\ (ev'.op = "end" /\ ev'.out = "returned" /\ ev'.ret >= 0)
            => consecutiveFailures' = 0
       /\ (ev'.op = "end" /\ ev'.out = "returned" /\ ev'.ret = -1)
            => consecutiveFailures' = consecutiveFailures
       /\ ev'.out = "skipped"
            => consecutiveFailures' = (IF ev'.op = "start" THEN 0
                                       ELSE consecutiveFailures)]_vars

\* a cycle ended with RefreshTokenExpiredError after an earlier failure
C24_Witness ==
    /\ ev.op = "end" /\ ev.out = "returned" /\ ev.ret = -1
    /\ consecutiveFailures = 1

\* the engine is running: start() has been called and neither stop() nor a
\* RefreshTokenExpiredError has ended the schedule since; either the interval
\* is armed or the cycle whose end arms it is in flight
Running ==
    /\ ~stopMid /\ ~authDead
    /\ \/ intervalId # 0
       \/ \E t \in TaskIds : InFlight(t) /\ tasks[t].by = "sched"

\* C25: when a cycle ends, successfully or with a retryable error, while the
\* engine is running, exactly one timer is armed afterwards and its interval
\* is baseIntervalSec * min(2^consecutiveFailures, 32) seconds for the counter
\* the cycle has left.
C25_RearmedAfterEveryCycle ==
    [][(Running /\ ev'.op = "end" /\ ~(ev'.out = "returned" /\ ev'.ret = -1))
          => /\ intervalId' # 0
             /\ timers' = {[id |-> intervalId',
                            ms |-> baseIntervalSec'
                                     * Min(Pow2(consecutiveFailures'), 32) * 1000]}]_vars

\* C26: a cycle that ends successfully with a scanner configured, whatever
\* the size of its batch, has invoked the scanner exactly once and has made
\* at most one reconcileArchived call; a cycle that ends with a failure of
\* fetchUnsynced or markSynced has not invoked the scanner.
C26_ScannerOncePerSuccessfulCycle ==
    ev.op = "end"
       => /\ (ev.out = "returned" /\ ev.ret >= 0 /\ archiveScanner) => ev.scans = 1
          /\ ev.recs <= ev.scans /\ ev.scans <= 1
          /\ (ev.out = "threw" \/ ev.ret = -1) => ev.scans = 0

\* C27: a manualSync() less than 2000 ms after the last accepted one returns
\* without starting a cycle; lastManualSyncAt moves (to now) only in a call
\* that passes both checks, so a rejected call does not restart the cooldown;
\* an interval tick or start() that finds no cycle in flight starts one
\* whatever the time since the last manual sync.
C27_ManualCooldown ==
    [][/\ (ev'.op = "manual" /\ now - lastManualSyncAt < 2000)
            => /\ ev'.out = "cooldown"
               /\ tasks' = tasks /\ syncing' = syncing
       /\ (ev'.op = "manual" /\ ev'.out \in {"cooldown", "busy"})
            => lastManualSyncAt' = lastManualSyncAt
       /\ (ev'.op = "manual" /\ ev'.out = "entered") => lastManualSyncAt' = now
       /\ ev'.op # "manual" => lastManualSyncAt' = lastManualSyncAt
       /\ (ev'.op \in {"tick", "start"} /\ ~syncing) => ev'.out = "entered"]_vars

\* with no cycle in flight, a manualSync() one second after an accepted one
\* has just been turned away
C27_Witness ==
    /\ ev.op = "manual" /\ ev.out = "cooldown"
    /\ ~syncing
    /\ lastManualSyncAt >= StartNow
    /\ now - lastManualSyncAt = 1000

\* C28: an initialize() that runs to its end has either found no categories
\* on the server, called pluginInit once and written no categories file, or
\* found some and written them without calling pluginInit; either way it has
\* then pulled and written the tags and the status is synced. pluginInit is
\* sent what the categories file parses to, and the empty answer leaves the
\* files as they are.
C28_InitializePaths ==
    /\ [](cev.op = "initDone"
             => /\ cev.init \in {<<"gotEmpty", "pluginInit", "gotTags", "writeTags">>,
                                 <<"gotList", "writeCategories", "gotTags", "writeTags">>}
                /\ status = "synced")
    /\ [][cev'.op \in {"initGot", "initRead"} => \A o \in CfgOpIds :
             /\ (cfgOps[o].pc = "get" /\ cfgOps'[o].pc = "readLocal") => files' = files
             /\ (cfgOps[o].pc = "readLocal" /\ cfgOps'[o].pc = "pluginInit")
                    => /\ cfgOps'[o].val = ParseCategories(files["categories"])
                       /\ files' = files
             /\ (cfgOps[o].pc = "get" /\ cfgOps'[o].pc = "write")
                    => /\ cfgOps'[o].val # <<>> \/ cfgOps[o].f = "tags"
                       /\ files'[cfgOps[o].f] = WriteFile(cfgOps[o].f, cfgOps'[o].val)]_vars

\* a first contact has completed: pluginInit sent, the categories file still
\* the user's
C28_Witness ==
    /\ cev.op = "initDone"
    /\ cev.init = <<"gotEmpty", "pluginInit", "gotTags", "writeTags">>
    /\ writtenBy["categories"] = "user"
    /\ writtenBy["tags"] = "init"
    /\ status = "synced"

\* C29: from a file-change notification until the push it leads to, the
\* status is pending; the debounce timeout is what starts that push, once,
\* for the file of the last notification, and leaves no timer behind.
C29_DebouncedPush ==
    /\ [](debounceTimer # "" => status = "pending")
    /\ [][cev'.op = "fire"
             => /\ debounceTimer # "" /\ debounceTimer' = ""
                /\ Cardinality({o \in CfgOpIds : cfgOps'[o].kind = "push"})
                      = Cardinality({o \in CfgOpIds : cfgOps[o].kind = "push"}) + 1]_vars

\* C30: when a renewal started by ensureAccessToken settles, every request
\* awaiting it goes on with that outcome (on success it sends its call with
\* the renewed token, on failure it fails with the renewal's error), and
\* refreshing is null in the same turn; so no request is left waiting on a
\* settled renewal, refreshing never holds one, and the next request that
\* finds the token invalid and no renewal pending starts a new exchange.
C30_SettledRenewalReleasesAll ==
    /\ [](\A r \in ReqIds : reqs[r].pc = "ensure" => ops[reqs[r].waitOn].pc # "free")
    /\ [](refreshing # 0 => ops[refreshing].pc # "free")
    /\ [][\A o \in OpIds :
             (ops[o].pc # "free" /\ ops'[o].pc = "free" /\ ops[o].origin = "ensure")
                => /\ refreshing' = 0
                   /\ \A r \in ReqIds :
                         (reqs[r].pc = "ensure" /\ reqs[r].waitOn = o)
                            => IF ops[o].pc = "saveOk"
                               THEN /\ reqs'[r].pc = "call1"
                                    /\ reqs'[r].tok = accessToken'
                               ELSE /\ reqs'[r].pc = "idle"
                                    /\ aev'.outs[r] = (IF ops[o].pc = "saveFail"
                                                       THEN "rte" ELSE "err")]_vars
    /\ [][\A r \in ReqIds :
             (reqs[r].pc = "idle" /\ reqs'[r].pc = "ensure" /\ refreshing = 0)
                => /\ refreshing' # 0
                   /\ ops[refreshing'].pc = "free"
                   /\ ops'[refreshing'].pc = "exchange"
                   /\ reqs'[r].waitOn = refreshing']_vars

\* a renewal has just failed with two requests waiting on it: both have
\* failed with its error and the handle is clear
C30_Witness ==
    /\ aev.op = "settle"
    /\ \A r \in 1..2 : aev.outs[r] = "err"
    /\ refreshing = 0
    /\ ~IsAccessTokenValid

\* C31: the access token, its expiry and the refresh token are replaced in
\* one step, so the stored access token is never paired with a refresh
\* token of another issue and never lacks its expiry; a request suspended
\* on a renewal resumes with a token only in the step in which that
\* renewal's saveSettings() resolves.
C31_TokenPairReplacedTogether ==
    /\ [](accessToken # 0 => accessToken = refreshToken)
    /\ []((accessToken # 0) <=> (accessTokenExpiresAt # 0))
    /\ [][\A r \in ReqIds :
             (reqs[r].pc \in {"ensure", "forced"} /\ reqs'[r].pc \in {"call1", "call2"})
                => /\ ops[reqs[r].waitOn].pc = "saveOk"
                   /\ ops'[reqs[r].waitOn].pc = "free"
                   /\ reqs'[r].tok = accessToken
                   /\ accessToken' = accessToken /\ refreshToken' = refreshToken]_vars

\* a renewal has stored its new pair and awaits saveSettings(), with a
\* request still suspended on it
C31_Witness ==
    \E o \in OpIds :
        /\ ops[o].pc = "saveOk"
        /\ accessToken = srvGen /\ refreshToken = srvGen /\ srvGen > UserToken
        /\ \E r \in ReqIds : reqs[r].pc = "ensure" /\ reqs[r].waitOn = o

EditAwaitsDelivery(f) ==
    /\ lastPush.f = f /\ lastPush.out = "failed"
    /\ writtenBy[f] = "user"
    /\ Stringify(ReadFile(f)) = lastPush.hash

\* C33: while an edit whose push failed has not reached the server, only the
\* user changes the content of its file, and a manual config sync started in
\* that situation starts a push of the file.
C33_EditStandsUntilPushed ==
    [][\A f \in Files :
          EditAwaitsDelivery(f)
             => /\ files'[f] # files[f] => cev'.op = "modify"
                /\ cev'.op = "manualSync"
                     => Cardinality(PushesOf(cfgOps', f))
                          > Cardinality(PushesOf(cfgOps, f))]_vars

\* C34: a cycle whose fetchUnsynced succeeded, in which a write threw and
\* markSynced did not fail, has attempted every note of its batch and ends
\* as a success: sync() returns the number of notes written and
\* consecutiveFailures is 0.
C34_WriteFailureIsNotACycleFailure ==
    (ev.op = "end" /\ ev.fetch = "ok" /\ ev.mark \in {"none", "ok"}
        /\ ev.okWrites < ev.writes)
       => /\ ev.writes = ev.batch
          /\ ev.out = "returned"
          /\ ev.ret = ev.paths
          /\ consecutiveFailures = 0

\* of a batch of two notes one write threw and the other note was written
\* and acknowledged
C34_Witness ==
    /\ ev.op = "end" /\ ev.fetch = "ok" /\ ev.mark = "ok"
    /\ ev.batch = 2 /\ ev.writes = 2 /\ ev.okWrites = 1
    /\ ev.paths = 1 /\ ev.ret = 1

\* C35: a cycle moves fetching -> writing -> marking -> reconciliation
\* (scanning, reconciling) -> idle, leaving steps out but never going back
\* or ahead of a pending step: the writes take the notes one at a time from
\* the first in fetch order, markSynced and the reconciliation start only
\* once the last note's write has settled, the reconciliation only after
\* markSynced (if called) has resolved, and the cycle ends from the
\* reconciliation, from a failed fetch or markSynced, or with nothing to
\* reconcile with.
C35_StepOrder ==
    [][\A t \in TaskIds :
         LET a == tasks[t]
             b == tasks'[t]
         IN  (a.pc # b.pc \/ a.i # b.i) =>
               CASE a.pc = "idle" -> b.pc = "fetching"
                 [] a.pc = "fetching" ->
                      \/ b.pc = "idle"
                      \/ /\ b.pc = "writing" /\ b.i = 1 /\ b.results = <<>>
                         /\ b.notes # <<>>
                         /\ \A k \in 1..(Len(b.notes) - 1) : b.notes[k] < b.notes[k + 1]
                 [] a.pc = "writing" ->
                      /\ a.i = Len(a.results) + 1
                      /\ \/ /\ b.pc = "writing" /\ b.i = a.i + 1 /\ b.i <= Len(a.notes)
                            /\ b.notes = a.notes
                            /\ Len(b.results) = a.i
                            /\ b.syncedIds \in {a.syncedIds, Append(a.syncedIds, a.notes[a.i])}
                            /\ b.nMark = 0 /\ b.nScan = 0
                         \/ /\ b.pc = "marking" /\ a.i = Len(a.notes)
                            /\ Len(b.results) = Len(a.notes)
                         \/ /\ b.pc = "scanning" /\ a.i = Len(a.notes) /\ b.nMark = 0
                         \/ /\ b.pc = "idle" /\ a.i = Len(a.notes)
                            /\ ev'.writes = ev'.batch /\ ev'.marks = 0
                 [] a.pc = "marking" ->
                      \/ b.pc = "scanning" /\ b.mark = "ok"
                      \/ b.pc = "idle" /\ ev'.scans = 0
                 [] a.pc = "scanning" -> b.pc \in {"reconciling", "idle"}
                 [] a.pc = "reconciling" -> b.pc = "idle" /\ ev'.arch # "none"]_vars

\* a cycle has gone through every step: two writes, markSynced, the scanner
\* and the reconcileArchived call
C35_Witness ==
    /\ ev.op = "end" /\ ev.out = "returned"
    /\ ev.batch = 2 /\ ev.writes = 2 /\ ev.marks = 1 /\ ev.mark = "ok"
    /\ ev.scans = 1 /\ ev.recs = 1 /\ ev.arch = "ok"

\* C36: the sleep after attempt i lasts baseDelay * 2^i: 1 s after the only
\* retried attempt of an ordinary call (2 attempts, base 1 s); 20, 40, 80,
\* 160 s after attempts 0..3 of a renewal call (5 attempts, base 20 s), 300 s
\* when all five have failed. A sleep follows only an attempt that failed
\* retryably and was not the last; the call ends without sleeping otherwise.
C36_BackoffDelays ==
    /\ [](rt.pc = "sleep" =>
             IF rt.maxRetries = 2
             THEN rt.baseDelayMs = 1000 /\ rt.attempt = 0 /\ rt.delay = 1000
             ELSE /\ rt.maxRetries = 5 /\ rt.baseDelayMs = 20000
                  /\ rt.attempt \in 0..3
                  /\ rt.delay = <<20000, 40000, 80000, 160000>>[rt.attempt + 1])
    /\ [](rt.pc = "done" =>
             /\ rt.waited = (IF rt.maxRetries = 2 THEN <<0, 1000>>
                             ELSE <<0, 20000, 60000, 140000, 300000>>)[rt.sent]
             /\ rt.waited <= 300000)
    /\ [][/\ (rt'.pc = "sleep" /\ rt.pc # "sleep")
               => /\ rt.pc = "attempt"
                  /\ rt.attempt < rt.maxRetries - 1
                  /\ ~TerminalFailure(rt'.lastError)
          /\ (rt'.waited # rt.waited /\ rt'.pc # "attempt")
               => FALSE
          /\ (rt'.waited # rt.waited /\ rt.pc = "sleep")
               => rt'.waited = rt.waited + rt.delay
          /\ (rt.pc = "attempt" /\ rt'.pc = "done") => rt'.waited = rt.waited]_vars

\* a renewal call has failed five times: it has slept 300 s in all
C36_Witness ==
    /\ rt.pc = "done" /\ rt.out = "threw"
    /\ rt.maxRetries = REFRESH_MAX_RETRIES /\ rt.sent = 5
    /\ rt.delay = 160000 /\ rt.waited = 300000

\* C37: a write of the note that the previous step has written leaves the
\* vault and the archive as that first write left them.
C37_RewriteLeavesStore ==
    [][(wev.op = "write" /\ wev'.op = "write" /\ wev'.note = wev.note)
          => (vault' = vault /\ archive' = archive)]_vars
\* C38: while the engine is running with a valid credential, under fair
\* timer ticks, a server that answers in the end and writes that succeed in
\* the end, every note the server reports as unsynced is acknowledged through
\* markSynced in the end: a note whose write threw, or whose cycle failed
\* before the acknowledgement, is fetched and attempted again
C38_UnsyncedEventuallyAcknowledged ==
    \A n \in 1..MaxSchedNotes :
        (n \in serverUnsynced /\ Running) ~> (n \notin serverUnsynced \/ ~Running)

\* a cycle of a running engine has ended and left a note unacknowledged: its
\* write threw
C38_Witness ==
    /\ Running
    /\ ev.op = "end" /\ ev.fetch = "ok"
    /\ ev.writes > ev.okWrites
    /\ serverUnsynced # {}


\* C39: every modification of categories.md or tags_registry.md by the user
\* is followed in the end by a push attempt for that same file (pushToServer
\* reads it, then updates the server or skips on an equal hash), whatever
\* other file changes arrive before the debounce timeout fires
C39_ModifyLeadsToPush ==
    \A f \in Files :
        (cev.op = "modify" /\ cev.f = f) ~> (cev.op = "read" /\ cev.f = f)

\* no pull or push is in flight and no debounce timeout is pending
Quiescent ==
    /\ \A o \in CfgOpIds : cfgOps[o].pc = "idle"
    /\ debounceTimer = ""

\* C40: whenever config sync is quiescent with status synced, the categories
\* read from categories.md equal the categories the server holds, for every
\* interleaving of debounced pushes and manual pulls, the server's
\* categories changing through this client only
C40_QuiescentSyncedAgrees ==
    (Quiescent /\ status = "synced")
        => ReadFile("categories") = srvCfg["categories"]

====
